---- MODULE Spec2Model ----
(***************************************************************************)
(* Beacon: the block-timeline reconstruction of services/logs.py           *)
(* (LogTailer.get_update_tip_entries) and the geolocation cache of         *)
(* services/geolocation.py (GeoCache), as state machines.                  *)
(***************************************************************************)
EXTENDS Integers, Sequences, FiniteSets, TLC

VARIABLES
    log,        \* debug.log: the sequence of its lines, oldest first
    syncLen,    \* number of lines the daemon wrote in its initial sync burst
    tipRet,     \* locals and return value of the last get_update_tip_entries
    geoCache,   \* GeoCache._cache: key -> record
    geoDisk,    \* the file at CACHE_PATH
    now,        \* time.time(), in seconds
    geoCall,    \* the last GeoCache.lookup: its argument, requests and result
    rpc,        \* the last call of an RpcClient method: requests made, result
    ui,         \* the dashboard: its workers in flight and its pending timers
    grid        \* generate_map: the markers placed and the cell of each

logVars == <<log, syncLen, tipRet>>
geoVars == <<geoCache, geoDisk, now, geoCall>>
restVars == <<rpc, ui, grid>>
vars == <<log, syncLen, tipRet, geoCache, geoDisk, now, geoCall, rpc, ui, grid>>

(***************************************************************************)
(* Bounds of the model and constants of the program.                       *)
(***************************************************************************)
\* most lines the daemon appends one by one
MaxLines == 3
\* resolution of a timestamp: ticks per second (datetime keeps fractions)
TicksPerSecond == 2
\* logs.py:76: the scan stops at this many distinct heights
ScanCap == 200
\* most steps of the clock
MaxClockSteps == 2
\* geolocation.py:18
MY_LOCATION_TTL == 3600

\* Python's None, and a value that is not None
None == <<>>
Some(v) == <<v>>
Val(o) == o[1]

\* a function on 1..n as the list of its values
Listed(f) == SubSeq(f, 1, Len(f))

Min(a, b) == IF a < b THEN a ELSE b
Max(a, b) == IF a > b THEN a ELSE b
Abs(a) == IF a < 0 THEN -a ELSE a

(***************************************************************************)
(* Log lines.  A line is kept as the fields the regular expressions of     *)
(* get_update_tip_entries read from it: whether it holds "UpdateTip", its  *)
(* height=<digits> field, its hash, its first token (the timestamp) and    *)
(* its tx=<digits> field; a field the line lacks is None.  The first token *)
(* is either ISO-8601 (ticks since the epoch) or a raw text.               *)
(***************************************************************************)
GoodStamp(t) == [iso |-> TRUE, ticks |-> t, raw |-> <<>>]
\* a line that starts with "UpdateTip:" instead of a timestamp
BadStamp == [iso |-> FALSE, ticks |-> 0,
             raw |-> <<"U", "p", "d", "a", "t", "e", "T", "i", "p", ":">>]

TipLine(h, stamp, tx) ==
    [tip |-> TRUE, hfield |-> h,
     hash |-> IF h = None THEN None ELSE <<"0", "0", "a", "b", "c", "d", "e", "f">>,
     stamp |-> stamp, txfield |-> tx]

NoiseLine ==
    [tip |-> FALSE, hfield |-> None, hash |-> None,
     stamp |-> GoodStamp(0), txfield |-> None]

\* timestamp and tx of the lines the daemon may append
StampTx ==
    { <<GoodStamp(0), Some(10)>>,
      <<GoodStamp(60 * TicksPerSecond), Some(12)>>,
      <<GoodStamp(61 * TicksPerSecond + 1), Some(5)>>,
      <<GoodStamp(0), Some(7)>>,
      <<BadStamp, Some(10)>>,
      <<GoodStamp(0), None>> }

LogLines ==
    { TipLine(Some(h), p[1], p[2]) : h \in {100, 101}, p \in StampTx }
        \cup { TipLine(None, GoodStamp(0), Some(5)), TipLine(None, BadStamp, None) }
        \cup { NoiseLine }

\* lines of an initial sync: heights 101 .. 100+n, one minute and 3 tx apart
SyncLine(k) ==
    TipLine(Some(100 + k), GoodStamp(k * 60 * TicksPerSecond), Some(3 * k))
SyncSizes == {ScanCap - 1, ScanCap, ScanCap + 1}
Limits == {1, 10, ScanCap + 50}

(***************************************************************************)
(* get_update_tip_entries, logs.py:42-114.                                 *)
(***************************************************************************)
\* logs.py:52-53
Height(line) == IF line.hfield = None THEN -1 ELSE Val(line.hfield)

\* logs.py:54-56
HashShort(line) ==
    IF line.hash = None THEN <<"-">> ELSE SubSeq(line.hash, 1, Min(4, Len(line.hash)))

\* a parse that yields a time for every first token
ParsedTime_Always(line) == Some(line.stamp.ticks)

\* logs.py:60-66: datetime.fromisoformat(...).astimezone(), None when it raises
ParsedTime(line) == IF line.stamp.iso THEN Some(line.stamp.ticks) ELSE None

\* logs.py:59-68: strftime to whole seconds, or the raw token with "T"
\* replaced by a space and cut to 19 characters
TimeDisplay(line) ==
    IF line.stamp.iso
    THEN <<"local", line.stamp.ticks \div TicksPerSecond>>
    ELSE LET raw == line.stamp.raw
             spaced == [i \in 1..Len(raw) |-> IF raw[i] = "T" THEN " " ELSE raw[i]]
         IN  <<"raw", IF Len(spaced) > 19 THEN SubSeq(spaced, 1, 19) ELSE spaced>>

\* logs.py:70-71
TxCount(line) == line.txfield

\* logs.py:75: one element of entries
Entry(line) ==
    [height |-> Height(line), hash_short |-> HashShort(line),
     time_display |-> TimeDisplay(line), parsed_time |-> ParsedTime(line),
     tx_count |-> TxCount(line)]

\* a scan that forgets the heights it has seen
SeenBefore_Forgetful(h, seen) == FALSE

\* logs.py:72-73
SeenBefore(h, seen) == h \in seen

\* a scan that never stops early
CapReached_Never(entries) == FALSE

\* logs.py:76
CapReached(entries) == Len(entries) >= ScanCap

\* logs.py:50-77: the loop body on line i; done is the break of line 77
ScanStep(lines, i, st) ==
    LET line == lines[i] IN
    IF st.done \/ ~line.tip THEN st
    ELSE IF SeenBefore(Height(line), st.seen) THEN st
    ELSE LET added == Append(st.entries, Entry(line)) IN
         [entries |-> added, seen |-> st.seen \cup {Height(line)},
          done |-> CapReached(added)]

\* logs.py:49: for line in reversed(lines), over lines[lo..hi] from hi down
\* to lo (split in halves to keep the evaluation shallow)
RECURSIVE ScanRange(_, _, _, _)
ScanRange(lines, lo, hi, st) ==
    IF lo > hi THEN st
    ELSE IF lo = hi THEN ScanStep(lines, lo, st)
    ELSE LET mid == (lo + hi) \div 2
             upper == ScanRange(lines, mid + 1, hi, st)
         IN  IF upper.done THEN upper ELSE ScanRange(lines, lo, mid, upper)

\* logs.py:42-77
Scan(lines) ==
    ScanRange(lines, 1, Len(lines), [entries |-> <<>>, seen |-> {}, done |-> FALSE]).entries

\* a sort without reverse=True
SortsBefore_Ascending(entries, i, j) ==
    \/ entries[i].height < entries[j].height
    \/ entries[i].height = entries[j].height /\ i < j

\* logs.py:82: list.sort(key=height, reverse=True) is stable: a sorts before
\* b when its height is greater, or equal and a came first in the list
SortsBefore(entries, i, j) ==
    \/ entries[i].height > entries[j].height
    \/ entries[i].height = entries[j].height /\ i < j

\* the place (from 1) each element of the list gets
SortRank(entries) ==
    Listed([i \in 1..Len(entries) |->
               1 + Cardinality({j \in 1..Len(entries) : SortsBefore(entries, j, i)})])

Permuted(entries, rank) ==
    Listed([k \in 1..Len(entries) |->
               entries[CHOOSE i \in 1..Len(entries) : rank[i] = k]])

\* logs.py:82
SortEntries(entries) == Permuted(entries, SortRank(entries))

\* a delta that keeps its sign (Python's divmod then floors)
DeltaSeconds_Signed(parsed_time, next_time) ==
    LET d == parsed_time - next_time
    IN  IF d >= 0 THEN d \div TicksPerSecond ELSE -((-d) \div TicksPerSecond)

\* logs.py:97-104
DeltaSeconds(parsed_time, next_time) ==
    LET d == parsed_time - next_time
        \* int(timedelta.total_seconds()) truncates toward zero
        truncated == IF d >= 0 THEN d \div TicksPerSecond
                     ELSE -((-d) \div TicksPerSecond)
    IN  IF truncated < 0 THEN Abs(truncated) ELSE truncated

DeltaDisplay(parsed_time, next_time) ==
    LET delta_seconds == DeltaSeconds(parsed_time, next_time)
        minutes == delta_seconds \div 60
        seconds == delta_seconds % 60
    IN  IF minutes # 0
        THEN ToString(minutes) \o "m " \o ToString(seconds) \o "s"
        ELSE ToString(seconds) \o "s"

\* a marker without the "empty" label
EmptyMarker_NoLabel(tx_count, next_tx) ==
    LET diff == Abs(tx_count - next_tx) - 2
    IN  ToString(IF diff < 0 THEN 0 ELSE diff) \o " tx"

\* a marker whose difference is not clamped at 0
EmptyMarker_NoClamp(tx_count, next_tx) ==
    IF next_tx = tx_count - 2 THEN "empty"
    ELSE ToString(Abs(tx_count - next_tx) - 2) \o " tx"

\* a marker that takes the difference without abs()
EmptyMarker_NoAbs(tx_count, next_tx) ==
    IF next_tx = tx_count - 2 THEN "empty"
    ELSE LET diff == (tx_count - next_tx) - 2
         IN  ToString(IF diff < 0 THEN 0 ELSE diff) \o " tx"

\* logs.py:105-112
EmptyMarker(tx_count, next_tx) ==
    IF next_tx = tx_count - 2 THEN "empty"
    ELSE LET diff == Abs(tx_count - next_tx) - 2
         IN  ToString(IF diff < 0 THEN 0 ELSE diff) \o " tx"

\* logs.py:89-113: the row of entries[index] (index counted from 1)
Row(entries, index) ==
    LET e == entries[index]
        hasNext == index + 1 <= Len(entries)
        next == entries[index + 1]
    IN  [height |-> e.height, hash_short |-> e.hash_short,
         time_display |-> e.time_display,
         delta_display |->
             IF hasNext /\ e.parsed_time # None /\ next.parsed_time # None
             THEN DeltaDisplay(Val(e.parsed_time), Val(next.parsed_time)) ELSE "-",
         empty_marker |->
             IF hasNext /\ e.tx_count # None /\ next.tx_count # None
             THEN EmptyMarker(Val(e.tx_count), Val(next.tx_count)) ELSE ""]

\* logs.py:88
MaxItems(limit, entries) == Min(limit, Len(entries))

\* logs.py:80
PlaceholderRow ==
    [height |-> 0, hash_short |-> <<"-">>,
     time_display |-> <<"raw", <<"No UpdateTip entries.">> >>,
     delta_display |-> "-", empty_marker |-> "-"]

\* logs.py:85-86: strftime("%Z") of the local zone
TzName(latest_time) == IF latest_time = None THEN "" ELSE "UTC"

NoCall == [called |-> FALSE]

\* logs.py:8-16: no call made yet, on a log the daemon has not written to
LogIdle ==
    /\ log = <<>>
    /\ syncLen = 0
    /\ tipRet = NoCall

\* no RpcClient method called, no worker or timer of the dashboard started,
\* no map generated
NoRpc == [pc |-> "idle"]
NoUi == [pc |-> "idle"]
NoGrid == [pc |-> "idle"]
RestIdle ==
    /\ rpc = NoRpc
    /\ ui = NoUi
    /\ grid = NoGrid

\* logs.py:79-114: what is returned for the scanned list and its sorted form
TipResult(scanned, entries, limit) ==
    IF scanned = <<>>
    THEN [called |-> TRUE, limit |-> limit, entries |-> <<>>,
          rows |-> <<PlaceholderRow>>, latest_time |-> None, tz_name |-> ""]
    ELSE [called |-> TRUE, limit |-> limit, entries |-> entries,
          rows |-> [index \in 1..Max(0, MaxItems(limit, entries)) |->
                        Row(entries, index)],
          latest_time |-> entries[1].parsed_time,
          tz_name |-> TzName(entries[1].parsed_time)]

Sorted(scanned, limit) == TipResult(scanned, SortEntries(scanned), limit)

\* logs.py:42-114 on a readable file holding `lines`
UpdateTipEntries(lines, limit) == Sorted(Scan(lines), limit)

\* logs.py:36
NotFoundRow ==
    [PlaceholderRow EXCEPT !.time_display = <<"raw", <<"debug.log not found">> >>]

\* logs.py:40
UnreadableRow ==
    [PlaceholderRow EXCEPT !.time_display = <<"raw", <<"Unable to read debug.log">> >>]

\* a return of one synthetic row, no latest time and no zone name
OneRow(row, limit) ==
    [called |-> TRUE, limit |-> limit, entries |-> <<>>,
     rows |-> <<row>>, latest_time |-> None, tz_name |-> ""]

\* a read_text whose exception is not caught
ReadFailed_Raises(limit) == [called |-> TRUE, limit |-> limit, raised |-> TRUE]

\* logs.py:37-40: read_text raised
ReadFailed(limit) == OneRow(UnreadableRow, limit)

\* what the file system answers to exists() and read_text()
FileKinds == {"missing", "unreadable", "readable"}
\* limits a caller may pass, the default 15 of logs.py:28 and smaller ones
AnyLimits == {-1, 0, 1, 2, 15, ScanCap + 50}

\* logs.py:28-114
GetUpdateTipEntriesOf(file, lines, limit) ==
    IF file = "missing" THEN OneRow(NotFoundRow, limit)
    ELSE IF file = "unreadable" THEN ReadFailed(limit)
    ELSE UpdateTipEntries(lines, limit)

(***************************************************************************)
(* services/geolocation.py.  Addresses and cache keys are texts, kept as   *)
(* the sequence of their characters.                                       *)
(***************************************************************************)
Ip_127_0_0_1 == <<"1", "2", "7", ".", "0", ".", "0", ".", "1">>
Ip_10_0_0_5 == <<"1", "0", ".", "0", ".", "0", ".", "5">>
Ip_172_16_0_1 == <<"1", "7", "2", ".", "1", "6", ".", "0", ".", "1">>
Ip_172_20_0_1 == <<"1", "7", "2", ".", "2", "0", ".", "0", ".", "1">>
Ip_172_31_0_1 == <<"1", "7", "2", ".", "3", "1", ".", "0", ".", "1">>
Ip_192_168_1_1 == <<"1", "9", "2", ".", "1", "6", "8", ".", "1", ".", "1">>
Ip6_Loopback == <<":", ":", "1">>
Ip6_LoopbackBracketed == <<"[", ":", ":", "1", "]">>
Ip6_fe80 == <<"f", "e", "8", "0", ":", ":", "1">>
Ip6_fe80Bracketed == <<"[", "f", "e", "8", "0", ":", ":", "1", "]">>
Ip6_FE80Upper == <<"F", "E", "8", "0", ":", ":", "1">>
Ip6_fc00 == <<"f", "c", "0", "0", ":", ":", "1">>
Ip6_fd00 == <<"f", "d", "0", "0", ":", ":", "1">>
Ip6_fd12 == <<"f", "d", "1", "2", ":", "3", "4", "5", "6", ":", ":", "1">>
Ip6_fd12Bracketed == <<"[", "f", "d", "1", "2", ":", "3", "4", "5", "6", ":", ":", "1", "]">>
Host_localhost == <<"l", "o", "c", "a", "l", "h", "o", "s", "t">>
Host_Empty == <<>>
Host_Blank == <<" ">>
Ip_8_8_8_8 == <<"8", ".", "8", ".", "8", ".", "8">>
Ip_8_8_8_8Padded == <<" ", "8", ".", "8", ".", "8", ".", "8", " ">>

\* the hosts the dashboard may ask for
LookupHosts ==
    { Ip_127_0_0_1, Ip_10_0_0_5, Ip_172_16_0_1, Ip_172_20_0_1, Ip_172_31_0_1,
      Ip_192_168_1_1, Ip6_Loopback, Ip6_LoopbackBracketed, Ip6_fe80,
      Ip6_fe80Bracketed, Ip6_FE80Upper, Ip6_fc00, Ip6_fd00, Ip6_fd12,
      Ip6_fd12Bracketed, Host_localhost, Host_Empty, Host_Blank, Ip_8_8_8_8,
      Ip_8_8_8_8Padded }

UpperCase == <<"A", "B", "C", "D", "E", "F", "G", "H", "I", "J", "K", "L", "M",
               "N", "O", "P", "Q", "R", "S", "T", "U", "V", "W", "X", "Y", "Z">>
LowerCase == <<"a", "b", "c", "d", "e", "f", "g", "h", "i", "j", "k", "l", "m",
               "n", "o", "p", "q", "r", "s", "t", "u", "v", "w", "x", "y", "z">>
Whitespace == {" ", "\t", "\n", "\r"}
Digits == {"0", "1", "2", "3", "4", "5", "6", "7", "8", "9"}

\* str.lower()
Lower(text) ==
    Listed([i \in 1..Len(text) |->
               IF \E k \in 1..26 : UpperCase[k] = text[i]
               THEN LowerCase[CHOOSE k \in 1..26 : UpperCase[k] = text[i]]
               ELSE text[i]])

\* str.strip()
Strip(text) ==
    LET inked == {i \in 1..Len(text) : text[i] \notin Whitespace}
    IN  IF inked = {} THEN <<>>
        ELSE SubSeq(text, CHOOSE i \in inked : \A j \in inked : i <= j,
                          CHOOSE i \in inked : \A j \in inked : j <= i)

\* str.replace(ch, "")
Without(text, ch) == SelectSeq(text, LAMBDA c : c # ch)

\* re.match of a literal prefix
StartsWith(text, prefix) ==
    Len(text) >= Len(prefix) /\ SubSeq(text, 1, Len(prefix)) = prefix

\* geolocation.py:21-23: PRIVATE_IP_PATTERN.match
PrivateIpPatternMatches(text) ==
    \/ StartsWith(text, <<"1", "2", "7", ".">>)
    \/ StartsWith(text, <<"1", "0", ".">>)
    \/ /\ StartsWith(text, <<"1", "7", "2", ".">>)
       /\ Len(text) >= 7
       /\ \/ text[5] = "1" /\ text[6] \in {"6", "7", "8", "9"}
          \/ text[5] = "2" /\ text[6] \in Digits
          \/ text[5] = "3" /\ text[6] \in {"0", "1"}
       /\ text[7] = "."
    \/ StartsWith(text, <<"1", "9", "2", ".", "1", "6", "8", ".">>)
    \/ text = <<":", ":", "1">>
    \/ StartsWith(text, <<"f", "e", "8", "0", ":">>)
    \/ StartsWith(text, <<"f", "c", "0", "0", ":">>)
    \/ StartsWith(text, <<"f", "d", "0", "0", ":">>)

\* geolocation.py:26-33
IsPrivateOrLocal(ip) ==
    LET ip_clean == Lower(Strip(ip))
    IN  \/ ip_clean = <<>>
        \/ ip_clean \in {Host_localhost, Ip6_Loopback}
        \/ PrivateIpPatternMatches(ip_clean)

\* the three providers of _fetch_from_api, in the order of the source
Providers == <<"geojs", "ip-api", "ipapi.co">>
\* what a request can come to: a body with coordinates, a timeout, a non-2xx
\* status, a body that is not JSON, a body without latitude
ReplyKinds == {"ok", "timeout", "http_error", "malformed", "no_coords"}

\* the JSON body a provider answers with
ReplyBody(provider, kind) ==
    LET whole ==
            IF provider = "geojs"
            THEN [latitude |-> 37, longitude |-> -122, country_code |-> <<"U", "S">>]
            ELSE IF provider = "ip-api"
            THEN [lat |-> 38, lon |-> -97, countryCode |-> <<"U", "S">>]
            ELSE [latitude |-> 39, longitude |-> -77,
                  country_code |-> <<"U", "S", "A">>]
    IN  IF kind = "ok" THEN whole
        ELSE [f \in DOMAIN whole \ {"latitude", "lat"} |-> whole[f]]

\* dict.get(key)
Get(data, key) == IF key \in DOMAIN data THEN Some(data[key]) ELSE None

\* geolocation.py:73-82, 94-103, 115-124: the record read from a body
RecordOf(data, latKey, lonKey, countryKey, time) ==
    LET lat == Get(data, latKey)
        lon == Get(data, lonKey)
        country == Get(data, countryKey)
    IN  IF lat # None /\ lon # None
        THEN Some([lat |-> Val(lat), lon |-> Val(lon),
                   country |-> IF country # None /\ Val(country) # <<>>
                               THEN SubSeq(Val(country), 1, Min(2, Len(Val(country))))
                               ELSE <<>>,
                   ts |-> time])
        ELSE None

\* one try block of _fetch_from_api: None when the request raises or the
\* body lacks a coordinate
TryProvider(provider, kind, time) ==
    IF kind \in {"timeout", "http_error", "malformed"} THEN None
    ELSE IF provider = "geojs"
    THEN RecordOf(ReplyBody(provider, kind), "latitude", "longitude", "country_code", time)
    ELSE IF provider = "ip-api"
    THEN RecordOf(ReplyBody(provider, kind), "lat", "lon", "countryCode", time)
    ELSE RecordOf(ReplyBody(provider, kind), "latitude", "longitude", "country_code", time)

\* a request made: the provider asked, and whether its try block returned
Request(k, got) == [provider |-> Providers[k], ok |-> got # None]

\* the value of a one-element set: binds a computed value to a name
The(S) == CHOOSE x \in S : TRUE

\* geolocation.py:107-128: ipapi.co, then None
FetchThird(replies, time, calls) ==
    The({[result |-> third, calls |-> Append(calls, Request(3, third))] :
            third \in {TryProvider(Providers[3], replies[3], time)}})

\* geolocation.py:86-128: ip-api.com, then the rest
FetchSecond(replies, time, calls) ==
    The({IF second # None
         THEN [result |-> second, calls |-> Append(calls, Request(2, second))]
         ELSE FetchThird(replies, time, Append(calls, Request(2, second))) :
            second \in {TryProvider(Providers[2], replies[2], time)}})

\* _fetch_from_api asking all three providers and keeping the last record
FetchFromApi_LastWins(replies, time) ==
    LET got == [k \in 1..3 |-> TryProvider(Providers[k], replies[k], time)]
        oks == {k \in 1..3 : got[k] # None}
    IN  [result |-> IF oks = {} THEN None ELSE got[CHOOSE k \in oks : \A j \in oks : j <= k],
         calls |-> <<Request(1, got[1]), Request(2, got[2]), Request(3, got[3])>>]

\* geolocation.py:59-128: the result and the requests made, replies[k] being
\* what the k-th provider answers
FetchFromApi(replies, time) ==
    The({IF first # None
         THEN [result |-> first, calls |-> <<Request(1, first)>>]
         ELSE FetchSecond(replies, time, <<Request(1, first)>>) :
            first \in {TryProvider(Providers[1], replies[1], time)}})

\* json.dumps / json.loads of the cache: an object whose members are objects
\* of two numbers, a string and an integer
JsonDumps(cache) ==
    [type |-> "object",
     members |-> [k \in DOMAIN cache |->
                     [lat |-> <<"number", cache[k].lat>>,
                      lon |-> <<"number", cache[k].lon>>,
                      country |-> <<"string", cache[k].country>>,
                      ts |-> <<"number", cache[k].ts>>]]]

JsonLoads(json) ==
    [k \in DOMAIN json.members |->
        [lat |-> json.members[k].lat[2], lon |-> json.members[k].lon[2],
         country |-> json.members[k].country[2], ts |-> json.members[k].ts[2]]]

\* the file at CACHE_PATH: absent, text that is not JSON, or a JSON text
NoFile == [exists |-> FALSE]
CorruptFile == [exists |-> TRUE, json |-> None]
FileOf(cache) == [exists |-> TRUE, json |-> Some(JsonDumps(cache))]

EmptyCache == [k \in {} |-> 0]

\* _load_cache that never reads the file
LoadCache_Empty(disk) == EmptyCache

\* geolocation.py:39-49: __init__ and _load_cache
LoadCache(disk) ==
    IF ~disk.exists THEN EmptyCache
    ELSE IF disk.json = None THEN EmptyCache
    ELSE JsonLoads(Val(disk.json))

\* what a write can come to: done, refused before the file is opened, or
\* broken off after the file was truncated
WriteKinds == {"ok", "denied", "partial"}

\* geolocation.py:51-57: _save_cache, every failure swallowed
SaveCache(cache, disk, write) ==
    IF write = "ok" THEN FileOf(cache)
    ELSE IF write = "denied" THEN disk
    ELSE CorruptFile

\* geolocation.py:136-139: the cache key of an address
CleanIp(ip) == Without(Without(Strip(ip), "["), "]")

\* geolocation.py:143
Cached(cache, key) == key \in DOMAIN cache

\* geolocation.py:148
Store(cache, key, record) ==
    [k \in DOMAIN cache \cup {key} |-> IF k = key THEN record ELSE cache[k]]

NoRequests == <<>>

\* lines 147-150 with the file written whatever _fetch_from_api gave
LookupMiss_SavesAlways(ip_clean, fetched, write, cache, disk) ==
    IF fetched.result # None
    THEN [result |-> fetched.result, calls |-> fetched.calls,
          cache |-> Store(cache, ip_clean, Val(fetched.result)),
          disk |-> SaveCache(Store(cache, ip_clean, Val(fetched.result)), disk, write),
          write |-> write]
    ELSE [result |-> None, calls |-> fetched.calls, cache |-> cache,
          disk |-> SaveCache(cache, disk, "ok"), write |-> "none"]

\* geolocation.py:147-150: result being what _fetch_from_api gave
LookupMiss(ip_clean, fetched, write, cache, disk) ==
    IF fetched.result # None
    THEN The({[result |-> fetched.result, calls |-> fetched.calls, cache |-> stored,
               disk |-> SaveCache(stored, disk, write), write |-> write] :
                 stored \in {Store(cache, ip_clean, Val(fetched.result))}})
    ELSE [result |-> None, calls |-> fetched.calls, cache |-> cache, disk |-> disk,
          write |-> "none"]

\* geolocation.py:136-141: lookup(ip) returns None before it reads the cache
SkipsLookup(ip) == Strip(ip) = <<>> \/ IsPrivateOrLocal(CleanIp(ip))

\* geolocation.py:136-150, skips and ip_clean being what lines 136-141 found
LookupKeyed(skips, ip_clean, replies, write, cache, disk, time) ==
    IF skips
    THEN [result |-> None, calls |-> NoRequests, cache |-> cache, disk |-> disk,
          write |-> "none"]
    ELSE IF Cached(cache, ip_clean)
    THEN [result |-> Some(cache[ip_clean]), calls |-> NoRequests, cache |-> cache,
          disk |-> disk, write |-> "none"]
    ELSE The({LookupMiss(ip_clean, fetched, write, cache, disk) :
                 fetched \in {FetchFromApi(replies, time)}})

\* geolocation.py:130-150: lookup(ip) as [result, calls, cache, disk, write]
LookupResult(ip, replies, write, cache, disk, time) ==
    LookupKeyed(SkipsLookup(ip), CleanIp(ip), replies, write, cache, disk, time)

(***************************************************************************)
(* The geolocation cache as a state machine.                               *)
(***************************************************************************)
\* a record an earlier run may have left in the file
OldRecord == [lat |-> 51, lon |-> 0, country |-> <<"G", "B">>, ts |-> 0]
InitialDisks == {NoFile, CorruptFile, FileOf([k \in {Ip_8_8_8_8} |-> OldRecord])}

\* no call of lookup is being looked at.  fresh: nothing was looked up on the
\* instance since it was constructed; after: what the caller's lookup of the
\* same address just before returned
NoLookup ==
    [pc |-> "idle", fresh |-> TRUE, onFresh |-> FALSE, after |-> "nothing",
     ip |-> <<>>, result |-> None, calls |-> NoRequests, write |-> "none"]

GeoIdle ==
    /\ geoDisk = NoFile
    /\ geoCache = LoadCache(NoFile)
    /\ now = 0
    /\ geoCall = NoLookup

\* app.py:1445: GeoCache() at start-up, on whatever file the last run left
InitGeo ==
    /\ LogIdle
    /\ RestIdle
    /\ geoDisk \in InitialDisks
    /\ geoCache = LoadCache(geoDisk)
    /\ now = 0
    /\ geoCall = NoLookup

\* lines 136-141 for each address the callers of lookup pass in
Skipped == [ip \in LookupHosts |-> SkipsLookup(ip)]
CleanIps == [ip \in LookupHosts |-> CleanIp(ip)]

\* what the three providers answer.  _fetch_from_api never asks a provider
\* after one that gave a record, so answers that differ only there are one
\* behaviour: they are kept at "ok"
Answers ==
    {replies \in [1..3 -> ReplyKinds] :
        \A k \in 2..3 : replies[k - 1] = "ok" => replies[k] = "ok"}
NoReplies == [k \in 1..3 |-> "ok"]

\* the answers the providers can give to lookup(ip); none is asked for when
\* line 138, 141 or 144 returns
RepliesTo(fetches) == IF fetches THEN Answers ELSE {NoReplies}

\* the outcomes of the write of line 149, made when a provider answered
WritesAfter(fetches, replies) ==
    IF fetches /\ \E k \in 1..3 : replies[k] = "ok"
    THEN WriteKinds
    ELSE {"none"}

\* lookup(ip) on the instance, after a lookup that returned `after`
Called(ip, after) ==
    \E fetches \in {~Skipped[ip] /\ ~Cached(geoCache, CleanIps[ip])} :
    \E replies \in RepliesTo(fetches) :
    \E write \in WritesAfter(fetches, replies) :
    \E r \in {LookupKeyed(Skipped[ip], CleanIps[ip], replies, write,
                        geoCache, geoDisk, now)} :
       /\ geoCache' = r.cache
       /\ geoDisk' = r.disk
       /\ geoCall' = [pc |-> "done", fresh |-> FALSE, onFresh |-> geoCall.fresh,
                      after |-> after, ip |-> ip, result |-> r.result,
                      calls |-> r.calls, write |-> r.write]

\* geolocation.py:130-150, called as in app.py:2190
Lookup ==
    /\ geoCall.pc = "idle"
    /\ \E ip \in LookupHosts : Called(ip, "nothing")
    /\ UNCHANGED now
    /\ UNCHANGED <<logVars, restVars>>

\* geolocation.py:130-150: the address just looked up is looked up again, as
\* every refresh does for a peer that stays connected
LookupAgain ==
    /\ geoCall.pc = "done"
    /\ Called(geoCall.ip, IF geoCall.result = None THEN "none" ELSE "record")
    /\ UNCHANGED now
    /\ UNCHANGED <<logVars, restVars>>

\* the caller is done with the result of lookup
LookupReturns ==
    /\ geoCall.pc = "done"
    /\ geoCall' = [NoLookup EXCEPT !.fresh = geoCall.fresh]
    /\ UNCHANGED <<geoCache, geoDisk, now>>
    /\ UNCHANGED <<logVars, restVars>>

\* geolocation.py:39-41: a new GeoCache on the same file
Construct ==
    /\ geoCache' = LoadCache(geoDisk)
    /\ geoCall' = [geoCall EXCEPT !.fresh = TRUE]
    /\ UNCHANGED <<geoDisk, now>>
    /\ UNCHANGED <<logVars, restVars>>

\* time passes
ClockStep ==
    /\ now < MaxClockSteps * (MY_LOCATION_TTL \div 2)
    /\ now' = now + MY_LOCATION_TTL \div 2
    /\ UNCHANGED <<geoCache, geoDisk, geoCall>>
    /\ UNCHANGED <<logVars, restVars>>

NextGeo ==
    \/ Lookup
    \/ LookupAgain
    \/ LookupReturns
    \/ Construct
    \/ ClockStep

SpecGeo == InitGeo /\ [][NextGeo]_vars

(***************************************************************************)
(* get_my_location: the node's own location under the reserved key.        *)
(***************************************************************************)
\* geolocation.py:17
MY_LOCATION_KEY ==
    <<"_", "_", "m", "y", "_", "l", "o", "c", "a", "t", "i", "o", "n", "_", "_">>

\* what the request of line 162 can come to: a body with coordinates, the
\* same after the node moved, a timeout, a non-2xx status, a body that is
\* not JSON, a body without latitude
MyReplyKinds == {"ok", "moved", "timeout", "http_error", "malformed", "no_coords"}

\* the JSON body GeoJS answers with to geo.json
MyReplyBody(kind) ==
    IF kind = "moved"
    THEN [latitude |-> 48, longitude |-> 2, country_code |-> <<"F", "R">>]
    ELSE ReplyBody("geojs", kind)

\* geolocation.py:161-181: the record built from the answer, None when the
\* request raises or a coordinate is missing
MyRecord(kind, time) ==
    IF kind \in {"timeout", "http_error", "malformed"} THEN None
    ELSE LET data == MyReplyBody(kind)
             lat == Get(data, "latitude")
             lon == Get(data, "longitude")
             country == Get(data, "country_code")
         IN  IF lat # None /\ lon # None
             THEN Some([lat |-> Val(lat), lon |-> Val(lon),
                        country |-> IF country = None THEN <<>>
                                    ELSE SubSeq(Val(country), 1, Min(2, Len(Val(country)))),
                        ts |-> time])
             ELSE None

\* (cached["lat"], cached["lon"])
Coordinates(record) == <<record.lat, record.lon>>

\* cached.get("ts", 0)
TsOf(record) == IF "ts" \in DOMAIN record THEN record.ts ELSE 0

\* line 159 with <= for <
IsYoung_Inclusive(cached, time) ==
    cached # None /\ (time - TsOf(Val(cached))) <= MY_LOCATION_TTL

\* geolocation.py:159: cached and (now - cached.get("ts", 0)) < MY_LOCATION_TTL
IsYoung(cached, time) ==
    cached # None /\ (time - TsOf(Val(cached))) < MY_LOCATION_TTL

\* geolocation.py:161-182: the request and what follows it
MyLocationFetch(fetched, write, cache, disk) ==
    IF fetched # None
    THEN The({[result |-> Some(Coordinates(Val(fetched))),
               calls |-> <<[provider |-> "geojs", ok |-> TRUE]>>,
               cache |-> stored, disk |-> SaveCache(stored, disk, write),
               write |-> write] :
                 stored \in {Store(cache, MY_LOCATION_KEY, Val(fetched))}})
    ELSE [result |-> None, calls |-> <<[provider |-> "geojs", ok |-> FALSE]>>,
          cache |-> cache, disk |-> disk, write |-> "none"]

\* geolocation.py:152-182: get_my_location() as [result, calls, cache, disk,
\* write], reply being what GeoJS answers
MyLocationResult(reply, write, cache, disk, time) ==
    IF IsYoung(Get(cache, MY_LOCATION_KEY), time)
    THEN [result |-> Some(Coordinates(cache[MY_LOCATION_KEY])), calls |-> NoRequests,
          cache |-> cache, disk |-> disk, write |-> "none"]
    ELSE The({MyLocationFetch(fetched, write, cache, disk) :
                 fetched \in {MyRecord(reply, time)}})

\* records an earlier run may have left under the reserved key and for a peer
OldMyRecord == [lat |-> 51, lon |-> 0, country |-> <<"G", "B">>, ts |-> 0]
MyInitialDisks ==
    {NoFile, CorruptFile,
     FileOf([k \in {MY_LOCATION_KEY} |-> OldMyRecord]),
     FileOf([k \in {MY_LOCATION_KEY, Ip_8_8_8_8} |->
                IF k = MY_LOCATION_KEY THEN OldMyRecord ELSE OldRecord])}

NoMyCall ==
    [pc |-> "idle", fresh |-> TRUE, result |-> None, calls |-> NoRequests,
     write |-> "none"]

\* app.py:1445: GeoCache() at start-up
InitMyLoc ==
    /\ LogIdle
    /\ RestIdle
    /\ geoDisk \in MyInitialDisks
    /\ geoCache = LoadCache(geoDisk)
    /\ now = 0
    /\ geoCall = NoMyCall

\* geolocation.py:152-182, called as in app.py:2202
GetMyLocation ==
    /\ geoCall.pc = "idle"
    /\ \E served \in {IsYoung(Get(geoCache, MY_LOCATION_KEY), now)} :
       \E reply \in (IF served THEN {"ok"} ELSE MyReplyKinds) :
       \E write \in (IF ~served /\ MyRecord(reply, now) # None
                     THEN WriteKinds ELSE {"none"}) :
       \E r \in {MyLocationResult(reply, write, geoCache, geoDisk, now)} :
          /\ geoCache' = r.cache
          /\ geoDisk' = r.disk
          /\ geoCall' = [pc |-> "done", fresh |-> FALSE, result |-> r.result,
                         calls |-> r.calls, write |-> r.write]
    /\ UNCHANGED now
    /\ UNCHANGED <<logVars, restVars>>

\* the caller is done with the result of get_my_location
MyLocationReturns ==
    /\ geoCall.pc = "done"
    /\ geoCall' = [NoMyCall EXCEPT !.fresh = geoCall.fresh]
    /\ UNCHANGED <<geoCache, geoDisk, now>>
    /\ UNCHANGED <<logVars, restVars>>

NextMyLoc ==
    \/ GetMyLocation
    \/ MyLocationReturns
    \/ Construct
    \/ ClockStep

SpecMyLoc == InitMyLoc /\ [][NextMyLoc]_vars

(***************************************************************************)
(* The cache file with any content: self._cache is whatever json.loads     *)
(* returned, a dict or not, with members that are records or not.          *)
(***************************************************************************)
\* a Python object in self._cache: a dict of members, or a list
PyDict(map) == [type |-> "dict", map |-> map]
PyList(items) == [type |-> "list", items |-> items]

\* json.dumps / json.loads of any such object
JsonDumpsAny(obj) ==
    IF obj.type = "dict"
    THEN [type |-> "object",
          members |-> [k \in DOMAIN obj.map |->
                          [f \in DOMAIN obj.map[k] |->
                              <<IF f = "country" THEN "string" ELSE "number",
                                obj.map[k][f]>>]]]
    ELSE [type |-> "array", items |-> obj.items]

JsonLoadsAny(json) ==
    IF json.type = "object"
    THEN PyDict([k \in DOMAIN json.members |->
                    [f \in DOMAIN json.members[k] |-> json.members[k][f][2]]])
    ELSE PyList(json.items)

\* the file at CACHE_PATH written by something else: not readable, a JSON
\* list, a JSON object whose members lack fields
UnreadableFile == [exists |-> TRUE, json |-> None, denied |-> TRUE]
ListFile == [exists |-> TRUE, json |-> Some([type |-> "array", items |-> <<>>])]
PartRecord == [ts |-> 0]
PartRecordFile ==
    [exists |-> TRUE,
     json |-> Some(JsonDumpsAny(PyDict([k \in {MY_LOCATION_KEY, Ip_8_8_8_8} |->
                                           PartRecord])))]
AnyDisks ==
    {NoFile, CorruptFile, UnreadableFile, ListFile, PartRecordFile,
     FileOf([k \in {Ip_8_8_8_8} |-> OldRecord])}

\* geolocation.py:39-49: __init__ and _load_cache, for any file
LoadAny(disk) ==
    IF ~disk.exists THEN PyDict(EmptyCache)
    ELSE IF disk.json = None THEN PyDict(EmptyCache)
    ELSE JsonLoadsAny(Val(disk.json))

\* geolocation.py:51-57: _save_cache, for any object
SaveAny(obj, disk, write) ==
    IF write = "ok" THEN [exists |-> TRUE, json |-> Some(JsonDumpsAny(obj))]
    ELSE IF write = "denied" THEN disk
    ELSE CorruptFile

\* a call that came back, and a call that raised
Returned(result, calls, obj, disk, write) ==
    [raised |-> "none", result |-> result, calls |-> calls, cache |-> obj,
     disk |-> disk, write |-> write]
Raised(exception, calls, obj, disk) ==
    [raised |-> exception, result |-> None, calls |-> calls, cache |-> obj,
     disk |-> disk, write |-> "none"]

\* geolocation.py:146-150 for any object: self._cache[ip_clean] = result
\* raises TypeError on a list
LookupMissAny(ip_clean, fetched, write, obj, disk) ==
    IF fetched.result = None THEN Returned(None, fetched.calls, obj, disk, "none")
    ELSE IF obj.type # "dict" THEN Raised("TypeError", fetched.calls, obj, disk)
    ELSE The({Returned(fetched.result, fetched.calls, stored,
                       SaveAny(stored, disk, write), write) :
                 stored \in {PyDict(Store(obj.map, ip_clean, Val(fetched.result)))}})

\* geolocation.py:130-150 for any object: ip_clean in self._cache is False
\* on a list that does not hold the text
LookupAny(skips, ip_clean, replies, write, obj, disk, time) ==
    IF skips THEN Returned(None, NoRequests, obj, disk, "none")
    ELSE IF obj.type = "dict" /\ Cached(obj.map, ip_clean)
    THEN Returned(Some(obj.map[ip_clean]), NoRequests, obj, disk, "none")
    ELSE The({LookupMissAny(ip_clean, fetched, write, obj, disk) :
                 fetched \in {FetchFromApi(replies, time)}})

\* geolocation.py:161-182 for a dict
MyLocationFetchAny(fetched, write, obj, disk) ==
    IF fetched = None
    THEN Returned(None, <<[provider |-> "geojs", ok |-> FALSE]>>, obj, disk, "none")
    ELSE The({Returned(Some(Coordinates(Val(fetched))),
                       <<[provider |-> "geojs", ok |-> TRUE]>>, stored,
                       SaveAny(stored, disk, write), write) :
                 stored \in {PyDict(Store(obj.map, MY_LOCATION_KEY, Val(fetched)))}})

\* geolocation.py:152-182 for any object: self._cache.get raises
\* AttributeError on a list, cached["lat"] raises KeyError on a member
\* without it
MyLocationAny(reply, write, obj, disk, time) ==
    IF obj.type # "dict" THEN Raised("AttributeError", NoRequests, obj, disk)
    ELSE IF IsYoung(Get(obj.map, MY_LOCATION_KEY), time)
    THEN IF {"lat", "lon"} \subseteq DOMAIN obj.map[MY_LOCATION_KEY]
         THEN Returned(Some(Coordinates(obj.map[MY_LOCATION_KEY])), NoRequests,
                       obj, disk, "none")
         ELSE Raised("KeyError", NoRequests, obj, disk)
    ELSE The({MyLocationFetchAny(fetched, write, obj, disk) :
                 fetched \in {MyRecord(reply, time)}})

AnyHosts == {Ip_8_8_8_8, Ip_8_8_8_8Padded, Ip_10_0_0_5}

NoAnyCall ==
    [pc |-> "idle", fresh |-> TRUE, op |-> "none", raised |-> "none",
     result |-> None, calls |-> NoRequests, write |-> "none", before |-> <<>>]

\* app.py:1445: GeoCache() at start-up, on any file
InitAny ==
    /\ LogIdle
    /\ RestIdle
    /\ geoDisk \in AnyDisks
    /\ geoCache = LoadAny(geoDisk)
    /\ now = 0
    /\ geoCall = NoAnyCall

\* the call record of an operation that gave r; before is the object the
\* operation found in self._cache
AnyCalled(op, r) ==
    /\ geoCache' = r.cache
    /\ geoDisk' = r.disk
    /\ geoCall' = [pc |-> "done", fresh |-> FALSE, op |-> op, raised |-> r.raised,
                   result |-> r.result, calls |-> r.calls, write |-> r.write,
                   before |-> <<geoCache>>]

\* geolocation.py:130-150 on any file
LookupAnyFile ==
    /\ geoCall.pc = "idle"
    /\ \E ip \in AnyHosts :
       \E replies \in Answers :
       \E write \in WriteKinds :
       \E r \in {LookupAny(Skipped[ip], CleanIps[ip], replies, write,
                           geoCache, geoDisk, now)} :
          AnyCalled("lookup", r)
    /\ UNCHANGED now
    /\ UNCHANGED <<logVars, restVars>>

\* geolocation.py:152-182 on any file
GetMyLocationAnyFile ==
    /\ geoCall.pc = "idle"
    /\ \E reply \in MyReplyKinds :
       \E write \in WriteKinds :
       \E r \in {MyLocationAny(reply, write, geoCache, geoDisk, now)} :
          AnyCalled("get_my_location", r)
    /\ UNCHANGED now
    /\ UNCHANGED <<logVars, restVars>>

\* the caller is done with the call, or with its exception
AnyReturns ==
    /\ geoCall.pc = "done"
    /\ geoCall' = [NoAnyCall EXCEPT !.fresh = geoCall.fresh]
    /\ UNCHANGED <<geoCache, geoDisk, now>>
    /\ UNCHANGED <<logVars, restVars>>

\* geolocation.py:39-41: a new GeoCache on the same file
ConstructAny ==
    /\ geoCall.pc = "idle"
    /\ geoCache' = LoadAny(geoDisk)
    /\ geoCall' = [geoCall EXCEPT !.fresh = TRUE]
    /\ UNCHANGED <<geoDisk, now>>
    /\ UNCHANGED <<logVars, restVars>>

NextAny ==
    \/ LookupAnyFile
    \/ GetMyLocationAnyFile
    \/ AnyReturns
    \/ ConstructAny
    \/ ClockStep

SpecAnyFile == InitAny /\ [][NextAny]_vars

(***************************************************************************)
(* services/rpc.py: RpcClient.  Method names and texts are sequences of    *)
(* characters; a Python value carries its type.                            *)
(***************************************************************************)
M_getblockchaininfo ==
    <<"g", "e", "t", "b", "l", "o", "c", "k", "c", "h", "a", "i", "n",
      "i", "n", "f", "o">>
M_getbestblockhash ==
    <<"g", "e", "t", "b", "e", "s", "t", "b", "l", "o", "c", "k", "h",
      "a", "s", "h">>
M_getchaintips ==
    <<"g", "e", "t", "c", "h", "a", "i", "n", "t", "i", "p", "s">>
M_getdifficulty ==
    <<"g", "e", "t", "d", "i", "f", "f", "i", "c", "u", "l", "t", "y">>
M_getmempoolinfo ==
    <<"g", "e", "t", "m", "e", "m", "p", "o", "o", "l", "i", "n", "f",
      "o">>
M_getmininginfo ==
    <<"g", "e", "t", "m", "i", "n", "i", "n", "g", "i", "n", "f", "o">>
M_getnetworkhashps ==
    <<"g", "e", "t", "n", "e", "t", "w", "o", "r", "k", "h", "a", "s",
      "h", "p", "s">>
M_getnetworkinfo ==
    <<"g", "e", "t", "n", "e", "t", "w", "o", "r", "k", "i", "n", "f",
      "o">>
M_getnettotals ==
    <<"g", "e", "t", "n", "e", "t", "t", "o", "t", "a", "l", "s">>
M_getpeerinfo == <<"g", "e", "t", "p", "e", "e", "r", "i", "n", "f", "o">>
M_getconnectioncount ==
    <<"g", "e", "t", "c", "o", "n", "n", "e", "c", "t", "i", "o", "n",
      "c", "o", "u", "n", "t">>
M_getmemoryinfo ==
    <<"g", "e", "t", "m", "e", "m", "o", "r", "y", "i", "n", "f", "o">>
M_getrpcinfo == <<"g", "e", "t", "r", "p", "c", "i", "n", "f", "o">>
M_uptime == <<"u", "p", "t", "i", "m", "e">>
M_getwalletinfo ==
    <<"g", "e", "t", "w", "a", "l", "l", "e", "t", "i", "n", "f", "o">>
M_getbalances == <<"g", "e", "t", "b", "a", "l", "a", "n", "c", "e", "s">>
M_getunconfirmedbalance ==
    <<"g", "e", "t", "u", "n", "c", "o", "n", "f", "i", "r", "m", "e",
      "d", "b", "a", "l", "a", "n", "c", "e">>
M_getbalance == <<"g", "e", "t", "b", "a", "l", "a", "n", "c", "e">>
M_listunspent == <<"l", "i", "s", "t", "u", "n", "s", "p", "e", "n", "t">>
M_listaddressgroupings ==
    <<"l", "i", "s", "t", "a", "d", "d", "r", "e", "s", "s", "g", "r",
      "o", "u", "p", "i", "n", "g", "s">>
M_listreceivedbyaddress ==
    <<"l", "i", "s", "t", "r", "e", "c", "e", "i", "v", "e", "d", "b",
      "y", "a", "d", "d", "r", "e", "s", "s">>
M_getblockhash ==
    <<"g", "e", "t", "b", "l", "o", "c", "k", "h", "a", "s", "h">>
M_walletlock == <<"w", "a", "l", "l", "e", "t", "l", "o", "c", "k">>
M_sendtoaddress ==
    <<"s", "e", "n", "d", "t", "o", "a", "d", "d", "r", "e", "s", "s">>
LynxCli == <<"l", "y", "n", "x", "-", "c", "l", "i">>

\* Python values that are not dicts or lists
PyNone == [type |-> "none"]
PyNum(n) == [type |-> "num", n |-> n]
PyStr(text) == [type |-> "str", text |-> text]
PyBool(b) == [type |-> "bool", b |-> b]
PyFloat(x) == [type |-> "float", x |-> x]

\* bool(value)
Truthy(value) ==
    CASE value.type = "none" -> FALSE
      [] value.type = "num" -> value.n # 0
      [] value.type = "float" -> value.x # 0
      [] value.type = "str" -> value.text # <<>>
      [] value.type = "bool" -> value.b
      [] value.type = "dict" -> DOMAIN value.map # {}
      [] value.type = "list" -> value.items # <<>>

\* a or b
Or(a, b) == IF Truthy(a) THEN a ELSE b

\* rpc.py:128: params or []
ParamsOrEmpty(params) == IF Truthy(params) THEN params ELSE PyList(<<>>)

\* what requests.post and the daemon can do to a call: a result, a null
\* result, no connection, a timeout, a non-2xx status, a body that is not
\* JSON, an error field; and no credentials configured
HttpKinds ==
    {"result", "null", "connection", "timeout", "status", "malformed",
     "rpc_error", "no_credentials"}

\* rpc.py:124-139: _rpc_call, value being the result field of the answer
RpcCall(http, value) ==
    IF http = "result" THEN [raised |-> FALSE, value |-> value]
    ELSE IF http = "null" THEN [raised |-> FALSE, value |-> PyNone]
    ELSE [raised |-> TRUE, value |-> PyNone]

\* the call of _rpc_call as the caller's log has it
HttpRequest(method, params, http) ==
    [via |-> "http", method |-> method, params |-> ParamsOrEmpty(params),
     ok |-> ~RpcCall(http, PyNone).raised]

\* what a run of lynx-cli can come to: it cannot be started, it exits with
\* an error, it prints nothing, it prints JSON, it prints the JSON null, it
\* prints other text
CliKinds == {"exec_error", "nonzero", "empty", "json", "json_null", "raw"}

RawText == <<"o", "k">>

\* rpc.py:141-159 and 173-189: what is made of a run of lynx-cli
CliResult(cli, value) ==
    IF cli \in {"exec_error", "nonzero", "empty", "json_null"} THEN PyNone
    ELSE IF cli = "json" THEN value
    ELSE PyStr(RawText)

\* str(n) for a natural number n
DecimalDigits == <<"0", "1", "2", "3", "4", "5", "6", "7", "8", "9">>
RECURSIVE Decimal(_)
Decimal(n) ==
    IF n < 10 THEN <<DecimalDigits[n + 1]>>
    ELSE Append(Decimal(n \div 10), DecimalDigits[(n % 10) + 1])

\* rpc.py:166-170: str_params
StrParam(p) ==
    IF p.type = "bool" THEN IF p.b THEN <<"t", "r", "u", "e">>
                            ELSE <<"f", "a", "l", "s", "e">>
    ELSE IF p.type = "num" THEN Decimal(p.n)
    ELSE IF p.type = "float" THEN Decimal(p.x) \o <<".", "0">>
    ELSE p.text

\* rpc.py:144 and 172: the command line
CliCommand(method, params, cli) ==
    [via |-> "cli",
     argv |-> <<LynxCli, method>> \o [i \in 1..Len(params.items) |->
                                         StrParam(params.items[i])],
     ok |-> CliResult(cli, PyNum(1)) # PyNone]

\* rpc.py:251
ReadOnlyMethod(method) ==
    \/ StartsWith(method, <<"g", "e", "t">>)
    \/ StartsWith(method, <<"l", "i", "s", "t">>)
    \/ method \in {<<"u", "p", "t", "i", "m", "e">>}

\* rpc.py:251-255: the run without parameters
SafeCallPlain(method, cli, value, calls) ==
    IF ReadOnlyMethod(method)
    THEN [result |-> CliResult(cli, value),
          calls |-> Append(calls, CliCommand(method, PyList(<<>>), cli))]
    ELSE [result |-> PyNone, calls |-> calls]

\* rpc.py:247-255: the fallback
SafeCallCli(method, params, cliP, cli, value, calls) ==
    IF Truthy(params)
    THEN IF CliResult(cliP, value) # PyNone
         THEN [result |-> CliResult(cliP, value),
               calls |-> Append(calls, CliCommand(method, params, cliP))]
         ELSE SafeCallPlain(method, cli, value,
                            Append(calls, CliCommand(method, params, cliP)))
    ELSE SafeCallPlain(method, cli, value, calls)

\* rpc.py:241-255: _safe_call(method, params) as [result, calls]; http is what
\* the HTTP call comes to, cliP and cli what the runs of lynx-cli with and
\* without parameters come to, value what the daemon answers
SafeCall(method, params, http, cliP, cli, value) ==
    IF ~RpcCall(http, value).raised
    THEN [result |-> RpcCall(http, value).value,
          calls |-> <<HttpRequest(method, params, http)>>]
    ELSE SafeCallCli(method, params, cliP, cli, value,
                     <<HttpRequest(method, params, http)>>)

\* the calls of _safe_call looked at: rpc.py:193, 226, 294, 567, 576 and a
\* method that is not a query
SafeCallMethods ==
    {M_getbalance, M_getblockhash, M_listreceivedbyaddress, M_uptime, M_walletlock}
SafeCallParams ==
    {PyNone, PyList(<<>>), PyList(<<PyNum(0), PyBool(TRUE)>>), PyList(<<PyNum(7)>>)}
\* what the daemon answers
DaemonValues == {PyNum(5), PyStr(<<"a", "b">>)}

\* app.py:1445 ff.: an RpcClient, no call made
InitRpc ==
    /\ LogIdle
    /\ GeoIdle
    /\ rpc = NoRpc
    /\ ui = NoUi
    /\ grid = NoGrid

\* rpc.py:241-255
SafeCallCalled ==
    /\ rpc.pc = "idle"
    /\ \E method \in SafeCallMethods, params \in SafeCallParams :
       \E http \in HttpKinds :
       \E cliP \in (IF ~RpcCall(http, PyNone).raised \/ ~Truthy(params)
                    THEN {"nonzero"} ELSE CliKinds) :
       \E cli \in (IF ~RpcCall(http, PyNone).raised THEN {"nonzero"} ELSE CliKinds) :
       \E value \in DaemonValues :
       \E r \in {SafeCall(method, params, http, cliP, cli, value)} :
          rpc' = [pc |-> "done", op |-> "_safe_call", method |-> method,
                  params |-> params, calls |-> r.calls, result |-> r.result,
                  raised |-> "none"]
    /\ UNCHANGED <<logVars, geoVars, ui, grid>>

\* rpc.py:196-239: the texts of sendtoaddress and sweep_to_address, an
\* address and a transaction id
Msg_AddressRequired ==
    <<"A", "d", "d", "r", "e", "s", "s", " ", "i", "s", " ", "r", "e", "q",
      "u", "i", "r", "e", "d">>
Msg_InvalidAmount ==
    <<"I", "n", "v", "a", "l", "i", "d", " ", "a", "m", "o", "u", "n", "t">>
Msg_AmountPositive ==
    <<"A", "m", "o", "u", "n", "t", " ", "m", "u", "s", "t", " ", "b", "e",
      " ", "p", "o", "s", "i", "t", "i", "v", "e">>
Msg_SendFailed == <<"S", "e", "n", "d", " ", "f", "a", "i", "l", "e", "d">>
Msg_Sent == <<"S", "e", "n", "t">>
Msg_SweepFailed ==
    <<"S", "w", "e", "e", "p", " ", "f", "a", "i", "l", "e", "d">>
Msg_NoBalance ==
    <<"N", "o", " ", "b", "a", "l", "a", "n", "c", "e", " ", "t", "o", " ",
      "s", "w", "e", "e", "p">>
Msg_Swept == <<"S", "w", "e", "p", "t">>
Key_txid == <<"t", "x", "i", "d">>
Addr_K == <<"K", "x", "1">>
Addr_Blank == <<" ", " ">>
Txid_ab == <<"a", "b", "1", "2">>

\* str(value) for a text or a number; a dict prints as its repr
ReprOfDict == <<"{", ".", ".", ".", "}">>
Str(value) ==
    IF value.type = "str" THEN value.text
    ELSE IF value.type = "num" THEN Decimal(value.n)
    ELSE IF value.type = "float" THEN Decimal(value.x) \o <<".", "0">>
    ELSE ReprOfDict

\* float(value): [raised, x]; a text converts when it is a decimal number
IsDecimalText(text) ==
    text # <<>> /\ \A i \in 1..Len(text) : \E d \in 1..10 : DecimalDigits[d] = text[i]
RECURSIVE DecimalValue(_)
DecimalValue(text) ==
    IF text = <<>> THEN 0
    ELSE DecimalValue(SubSeq(text, 1, Len(text) - 1)) * 10
         + (CHOOSE d \in 1..10 : DecimalDigits[d] = text[Len(text)]) - 1
Float(value) ==
    IF value.type = "num" THEN [raised |-> "none", x |-> value.n]
    ELSE IF value.type = "float" THEN [raised |-> "none", x |-> value.x]
    ELSE IF value.type = "bool" THEN [raised |-> "none", x |-> IF value.b THEN 1 ELSE 0]
    ELSE IF value.type = "str"
    THEN IF IsDecimalText(value.text)
         THEN [raised |-> "none", x |-> DecimalValue(value.text)]
         ELSE [raised |-> "ValueError", x |-> 0]
    ELSE [raised |-> "TypeError", x |-> 0]

\* the pair returned, and a call that raised
Pair(success, message) == [success |-> success, message |-> message]
NoPair == [success |-> FALSE, message |-> <<>>]
SendOutcome(result, calls, raised) ==
    [result |-> result, calls |-> calls, raised |-> raised]

\* rpc.py:215 and 237
TxidOf(result) ==
    IF result.type = "dict"
    THEN IF Key_txid \in DOMAIN result.map THEN result.map[Key_txid] ELSE result
    ELSE result

\* rpc.py:207-217 and 230-239: the HTTP call, then lynx-cli with the same
\* parameters
Submit(params, http, cli, value, done, failed, calls) ==
    IF ~RpcCall(http, value).raised
    THEN SendOutcome(Pair(TRUE, IF RpcCall(http, value).value # PyNone
                                THEN Str(RpcCall(http, value).value) ELSE done),
                     Append(calls, HttpRequest(M_sendtoaddress, params, http)),
                     "none")
    ELSE SendOutcome(IF CliResult(cli, value) # PyNone
                     THEN Pair(TRUE, Str(TxidOf(CliResult(cli, value))))
                     ELSE Pair(FALSE, failed),
                     calls \o <<HttpRequest(M_sendtoaddress, params, http),
                                CliCommand(M_sendtoaddress, params, cli)>>,
                     "none")

\* rpc.py:196-217: sendtoaddress(address, amount)
SendToAddress(address, amount, http, cli, value) ==
    IF Strip(address) = <<>>
    THEN SendOutcome(Pair(FALSE, Msg_AddressRequired), <<>>, "none")
    ELSE IF Float(amount).raised # "none"
    THEN SendOutcome(Pair(FALSE, Msg_InvalidAmount), <<>>, "none")
    ELSE IF Float(amount).x <= 0
    THEN SendOutcome(Pair(FALSE, Msg_AmountPositive), <<>>, "none")
    ELSE Submit(PyList(<<PyStr(Strip(address)), PyFloat(Float(amount).x)>>),
                http, cli, value, Msg_Sent, Msg_SendFailed, <<>>)

\* rpc.py:227-239: bal and what follows, balance being what _safe_call gave
SweepBalance(addr, balance, http, cli, value) ==
    IF balance.result # PyNone /\ Float(balance.result).raised # "none"
    THEN SendOutcome(NoPair, balance.calls, Float(balance.result).raised)
    ELSE IF (IF balance.result # PyNone THEN Float(balance.result).x ELSE 0) <= 0
    THEN SendOutcome(Pair(FALSE, Msg_NoBalance), balance.calls, "none")
    ELSE Submit(PyList(<<PyStr(addr), PyFloat(Float(balance.result).x), PyStr(<<>>),
                         PyStr(<<>>), PyBool(TRUE)>>),
                http, cli, value, Msg_Swept, Msg_SweepFailed, balance.calls)

\* rpc.py:219-239: sweep_to_address(address); balHttp, balCli and balValue
\* are what the getbalance query comes to
SweepToAddress(address, balHttp, balCli, balValue, http, cli, value) ==
    IF Strip(address) = <<>>
    THEN SendOutcome(Pair(FALSE, Msg_AddressRequired), <<>>, "none")
    ELSE SweepBalance(Strip(address),
                      SafeCall(M_getbalance, PyNone, balHttp, balCli, balCli, balValue),
                      http, cli, value)

\* what the dashboard passes in
Addresses == {<<>>, Addr_Blank, Addr_K, <<" ">> \o Addr_K}
Amounts ==
    {PyFloat(5), PyNum(0), PyNum(-1), PyBool(TRUE), PyNone,
     PyStr(<<"2">>), PyStr(<<"a", "b", "c">>), PyStr(<<>>)}
\* what the daemon answers to sendtoaddress and to getbalance
SendValues == {PyStr(Txid_ab), PyDict([k \in {Key_txid} |-> PyStr(Txid_ab)])}
BalanceValues == {PyNum(0), PyNum(12), PyNum(-3)}
SendHttpKinds == {"result", "null", "connection", "rpc_error", "no_credentials"}
SendCliKinds == {"json", "raw", "nonzero", "exec_error"}

\* rpc.py:196-217
SendToAddressCalled ==
    /\ rpc.pc = "idle"
    /\ \E address \in Addresses, amount \in Amounts :
       \E http \in SendHttpKinds, cli \in SendCliKinds, value \in SendValues :
       \E r \in {SendToAddress(address, amount, http, cli, value)} :
          rpc' = [pc |-> "done", op |-> "sendtoaddress", address |-> address,
                  amount |-> amount, calls |-> r.calls, result |-> r.result,
                  raised |-> r.raised]
    /\ UNCHANGED <<logVars, geoVars, ui, grid>>

\* rpc.py:219-239
SweepToAddressCalled ==
    /\ rpc.pc = "idle"
    /\ \E address \in Addresses :
       \E balHttp \in {"result", "null", "connection"}, balCli \in CliKinds :
       \E balValue \in BalanceValues :
       \E http \in SendHttpKinds, cli \in SendCliKinds, value \in SendValues :
       \E r \in {SweepToAddress(address, balHttp, balCli, balValue, http, cli, value)} :
       \E balance \in {SafeCall(M_getbalance, PyNone, balHttp, balCli, balCli,
                                balValue).result} :
          rpc' = [pc |-> "done", op |-> "sweep_to_address", address |-> address,
                  balance |-> balance, calls |-> r.calls, result |-> r.result,
                  raised |-> r.raised]
    /\ UNCHANGED <<logVars, geoVars, ui, grid>>

\* rpc.py:553-638: the keys fetch_snapshot reads, and its texts
Key_confirmations ==
    <<"c", "o", "n", "f", "i", "r", "m", "a", "t", "i", "o", "n", "s">>
Key_initialblockdownload ==
    <<"i", "n", "i", "t", "i", "a", "l", "b", "l", "o", "c", "k", "d", "o",
      "w", "n", "l", "o", "a", "d">>
Key_blocks == <<"b", "l", "o", "c", "k", "s">>
Key_addr == <<"a", "d", "d", "r">>
Key_size == <<"s", "i", "z", "e">>
Text_unknown == <<"u", "n", "k", "n", "o", "w", "n">>
Text_synced == <<"s", "y", "n", "c", "e", "d">>
Text_syncing == <<"s", "y", "n", "c", "i", "n", "g">>
Text_running == <<"r", "u", "n", "n", "i", "n", "g">>
Text_staking == <<"s", "t", "a", "k", "i", "n", "g">>
Text_dash == <<"-">>
Text_question == <<"?">>
Text_8332 == <<"8", "3", "3", "2">>
Text_9332 == <<"9", "3", "3", "2">>
Text_secure == <<"s", "e", "c", "u", "r", "e">>
Text_unsecure == <<"u", "n", "s", "e", "c", "u", "r", "e">>
Text_active == <<"a", "c", "t", "i", "v", "e">>
Text_workdir ==
    <<"/", "v", "a", "r", "/", "l", "i", "b", "/", "l", "y", "n", "x">>
Text_peer1 ==
    <<"1", ".", "2", ".", "3", ".", "4", ":", "2", "2", "5", "6", "6">>
Text_hash == <<"0", "0", "a", "b">>

\* what the daemon answers to the queries when it answers
InfoDict == PyDict([k \in {Key_size} |-> PyNum(1)])
ChainInfo ==
    PyDict([k \in {Key_initialblockdownload, Key_blocks} |->
               IF k = Key_blocks THEN PyNum(100) ELSE PyBool(FALSE)])
Utxo(confirmations) == PyDict([k \in {Key_confirmations} |-> PyNum(confirmations)])
Unspent == PyList(<<Utxo(5), Utxo(40), Utxo(0)>>)
PeerInfo == PyList(<<PyDict([k \in {Key_addr} |-> PyStr(Text_peer1)]), InfoDict>>)

\* rpc.py:554-576: the queries in the order they are made: the name the
\* value goes by, the method, the params, the default of `or` and the answer
Query(name, method, params, default, answer) ==
    [name |-> name, method |-> method, params |-> params, default |-> default,
     answer |-> answer]
Queries ==
    <<Query("blockchain_info", M_getblockchaininfo, PyNone,
            Some(PyDict(<<>>)), ChainInfo),
      Query("best_block_hash", M_getbestblockhash, PyNone,
            None, PyStr(Text_hash)),
      Query("chain_tips", M_getchaintips, PyNone,
            Some(PyList(<<>>)), PyList(<<InfoDict>>)),
      Query("difficulty", M_getdifficulty, PyNone,
            None, PyNum(3)),
      Query("mempool_info", M_getmempoolinfo, PyNone,
            Some(PyDict(<<>>)), InfoDict),
      Query("mining_info", M_getmininginfo, PyNone,
            Some(PyDict(<<>>)), InfoDict),
      Query("network_hashps", M_getnetworkhashps, PyNone,
            None, PyNum(9)),
      Query("network_info", M_getnetworkinfo, PyNone,
            Some(PyDict(<<>>)), InfoDict),
      Query("net_totals", M_getnettotals, PyNone,
            Some(PyDict(<<>>)), InfoDict),
      Query("peer_info", M_getpeerinfo, PyNone,
            Some(PyList(<<>>)), PeerInfo),
      Query("connection_count", M_getconnectioncount, PyNone,
            None, PyNum(2)),
      Query("memory_info", M_getmemoryinfo, PyNone,
            Some(PyDict(<<>>)), InfoDict),
      Query("rpc_info", M_getrpcinfo, PyNone,
            Some(PyDict(<<>>)), InfoDict),
      Query("uptime", M_uptime, PyNone,
            None, PyNum(60)),
      Query("wallet_info", M_getwalletinfo, PyNone,
            Some(PyDict(<<>>)), InfoDict),
      Query("balances", M_getbalances, PyNone,
            Some(PyDict(<<>>)), InfoDict),
      Query("unconfirmed_balance", M_getunconfirmedbalance, PyNone,
            None, PyNum(1)),
      Query("wallet_balance", M_getbalance, PyNone,
            Some(PyNum(0)), PyNum(12)),
      Query("listunspent", M_listunspent, PyNone,
            Some(PyList(<<>>)), Unspent),
      Query("address_groups", M_listaddressgroupings, PyNone,
            Some(PyList(<<>>)), PyList(<<InfoDict>>)),
      Query("all_addresses", M_listreceivedbyaddress, PyList(<<PyNum(0), PyBool(TRUE)>>),
            Some(PyList(<<>>)), PyList(<<InfoDict>>))>>

\* rpc.py:12-20, 22-69: what the configuration file gave
Confs ==
    {[rpc_port |-> PyStr(Text_9332), credentials |-> TRUE],
     [rpc_port |-> PyNone, credentials |-> FALSE]}

\* what a query comes to: answered, failed on every path, or answered by
\* lynx-cli with text that is not JSON
QueryOutcomes == {"ok", "failed", "raw"}
HttpOf(outcome, conf) ==
    IF ~conf.credentials THEN "no_credentials"
    ELSE IF outcome = "ok" THEN "result" ELSE "connection"
CliOf(outcome) ==
    IF outcome = "ok" THEN "json" ELSE IF outcome = "raw" THEN "raw" ELSE "nonzero"

\* rpc.py:554-576: one line `x = self._safe_call(...) or default`
QueryCall(q, outcome, conf) ==
    SafeCall(q.method, q.params, HttpOf(outcome, conf), CliOf(outcome), CliOf(outcome),
             q.answer)
QueryValue(q, outcome, conf) ==
    IF q.default = None THEN QueryCall(q, outcome, conf).result
    ELSE Or(QueryCall(q, outcome, conf).result, Val(q.default))

QueryNames == {Queries[i].name : i \in 1..Len(Queries)}
QueryNamed(name) == Queries[CHOOSE i \in 1..Len(Queries) : Queries[i].name = name]

\* rpc.py:554-576: all the values, by name
QueryValues(outcomes, conf) ==
    [name \in QueryNames |-> QueryValue(QueryNamed(name), outcomes[name], conf)]
RECURSIVE QueryCalls(_, _, _)
QueryCalls(n, outcomes, conf) ==
    IF n = 0 THEN <<>>
    ELSE QueryCalls(n - 1, outcomes, conf)
         \o QueryCall(Queries[n], outcomes[Queries[n].name], conf).calls

\* d.get(key, default)
DictGet(d, key, default) == IF key \in DOMAIN d.map THEN d.map[key] ELSE default

\* what `for x in value` goes through
Elements(value) ==
    IF value.type = "list" THEN value.items
    ELSE IF value.type = "str" THEN [i \in 1..Len(value.text) |-> PyStr(<<value.text[i]>>)]
    ELSE <<>>

\* rpc.py:578-582: the loop over listunspent: what it raises, what it counts
UtxoLoopRaises(listunspent) ==
    IF listunspent.type \notin {"list", "str", "dict"} THEN "TypeError"
    ELSE IF \E i \in 1..Len(Elements(listunspent)) : Elements(listunspent)[i].type # "dict"
    THEN "AttributeError"
    ELSE "none"
ImmatureUtxos(listunspent) ==
    Cardinality({i \in 1..Len(listunspent.items) :
                    /\ 0 < DictGet(listunspent.items[i], Key_confirmations, PyNum(0)).n
                    /\ DictGet(listunspent.items[i], Key_confirmations, PyNum(0)).n < 31})

\* rpc.py:584-587: round(stakes * 100 / blocks, 3), in thousandths
Yield(stakes, blocks) ==
    [thousandths |-> (2 * stakes * 100 * 1000 + blocks) \div (2 * blocks)]

\* rpc.py:589-592
SyncState(blockchain) ==
    IF blockchain.type # "dict" THEN Text_unknown
    ELSE IF DictGet(blockchain, Key_initialblockdownload, PyNone) = PyBool(FALSE)
    THEN Text_synced
    ELSE Text_syncing

\* rpc.py:594-595
FirstFive(peers) ==
    SubSeq(Elements(peers), 1, IF Len(Elements(peers)) < 5 THEN Len(Elements(peers)) ELSE 5)
PeerListRaises(peers) ==
    IF Truthy(peers) /\ \E i \in 1..Len(FirstFive(peers)) : FirstFive(peers)[i].type # "dict"
    THEN "AttributeError"
    ELSE "none"
RECURSIVE Join(_)
Join(texts) ==
    IF texts = <<>> THEN <<>>
    ELSE IF Len(texts) = 1 THEN texts[1]
    ELSE texts[1] \o <<",", " ">> \o Join(Tail(texts))
PeerList(peers) ==
    IF Truthy(peers)
    THEN Join([i \in 1..Len(FirstFive(peers)) |->
                  DictGet(FirstFive(peers)[i], Key_addr, PyStr(Text_question)).text])
    ELSE Text_dash

\* rpc.py:597-600
StakingStatus(blockchain) ==
    IF blockchain.type # "dict" THEN Text_unknown
    ELSE IF Truthy(DictGet(blockchain, Key_initialblockdownload, PyNone))
    THEN Text_unknown
    ELSE Text_staking

\* rpc.py:602-638: the dictionary returned
SnapshotOf(v, stakes, monitor, conf) ==
    [blockchain_info |-> v["blockchain_info"],
     best_block_hash |-> v["best_block_hash"],
     chain_tips |-> v["chain_tips"],
     difficulty |-> v["difficulty"],
     mempool_info |-> v["mempool_info"],
     mining_info |-> v["mining_info"],
     network_hashps |-> v["network_hashps"],
     network_info |-> v["network_info"],
     net_totals |-> v["net_totals"],
     peer_info |-> v["peer_info"],
     connection_count |-> v["connection_count"],
     memory_info |-> v["memory_info"],
     rpc_info |-> v["rpc_info"],
     uptime |-> v["uptime"],
     wallet_info |-> v["wallet_info"],
     balances |-> v["balances"],
     unconfirmed_balance |-> v["unconfirmed_balance"],
     wallet_balance |-> v["wallet_balance"],
     immature_utxos |-> ImmatureUtxos(v["listunspent"]),
     stakes_24h |-> stakes[1],
     stakes_7d |-> stakes[2],
     yield_24h |-> Yield(stakes[1], 288),
     yield_7d |-> Yield(stakes[2], 2016),
     daemon_status |-> IF Truthy(v["blockchain_info"]) THEN Text_running ELSE Text_unknown,
     staking_status |-> StakingStatus(v["blockchain_info"]),
     sync_state |-> SyncState(v["blockchain_info"]),
     block_height |-> IF v["blockchain_info"].type = "dict"
                      THEN DictGet(v["blockchain_info"], Key_blocks, PyStr(Text_dash))
                      ELSE PyStr(Text_dash),
     peer_count |-> IF v["peer_info"].type = "list" THEN Len(v["peer_info"].items) ELSE 0,
     peer_list |-> PeerList(v["peer_info"]),
     address_groups |-> v["address_groups"],
     all_addresses |-> v["all_addresses"],
     rpc_port |-> Or(conf.rpc_port, PyStr(Text_8332)),
     rpc_security |-> IF conf.credentials THEN Text_secure ELSE Text_unsecure,
     working_dir |-> Text_workdir,
     sync_monitor |-> monitor]
NoSnapshot == [raised |-> TRUE]

\* rpc.py:553-638: fetch_snapshot() as [result, raised]
FetchSnapshotOf(v, stakes, monitor, conf) ==
    IF UtxoLoopRaises(v["listunspent"]) # "none"
    THEN [result |-> NoSnapshot, raised |-> UtxoLoopRaises(v["listunspent"])]
    ELSE IF PeerListRaises(v["peer_info"]) # "none"
    THEN [result |-> NoSnapshot, raised |-> PeerListRaises(v["peer_info"])]
    ELSE [result |-> SnapshotOf(v, stakes, monitor, conf), raised |-> "none"]
FetchSnapshot(outcomes, stakes, monitor, conf) ==
    FetchSnapshotOf(QueryValues(outcomes, conf), stakes, monitor, conf)

\* the queries that do not come to an answer in one call of fetch_snapshot
MaxFailures == 2
AllAnswered == [name \in QueryNames |-> "ok"]
RECURSIVE OutcomesWith(_)
OutcomesWith(n) ==
    IF n = 0 THEN {AllAnswered}
    ELSE {[f EXCEPT ![name] = o] :
             f \in OutcomesWith(n - 1), name \in QueryNames, o \in QueryOutcomes}
SnapshotOutcomes == OutcomesWith(MaxFailures)

\* rpc.py:535-551 and 257-268: what _count_stakes(1) and _count_stakes(7)
\* count in debug.log, and what systemctl says
StakeCounts == {<<0, 0>>, <<1, 3>>}
MonitorTexts == {Text_active, Text_unknown}

\* rpc.py:553-638
FetchSnapshotCalled ==
    /\ rpc.pc = "idle"
    /\ \E outcomes \in SnapshotOutcomes, conf \in Confs :
       \E stakes \in StakeCounts, monitor \in MonitorTexts :
       \E r \in {FetchSnapshot(outcomes, stakes, monitor, conf)} :
          rpc' = [pc |-> "done", op |-> "fetch_snapshot", outcomes |-> outcomes,
                  conf |-> conf, calls |-> QueryCalls(Len(Queries), outcomes, conf),
                  result |-> r.result, raised |-> r.raised]
    /\ UNCHANGED <<logVars, geoVars, ui, grid>>

\* the caller is done with the result
RpcReturns ==
    /\ rpc.pc = "done"
    /\ rpc' = NoRpc
    /\ UNCHANGED <<logVars, geoVars, ui, grid>>

NextRpc ==
    \/ SafeCallCalled
    \/ SendToAddressCalled
    \/ SweepToAddressCalled
    \/ FetchSnapshotCalled
    \/ RpcReturns

SpecRpc == InitRpc /\ [][NextRpc]_vars

(***************************************************************************)
(* A submission as the daemon sees it.  requests.post waits 3 seconds for  *)
(* the answer (rpc.py:133): a request the daemon accepted may still end in *)
(* a timeout or in an answer the client cannot read, and _rpc_call raises. *)
(***************************************************************************)
\* the answers of HttpKinds, and two in which the daemon ran the method: its
\* answer came after the timeout, or its body could not be read
SubmitHttpKinds == SendHttpKinds \cup {"timeout", "late", "garbled"}

\* whether the daemon received the request and ran sendtoaddress
HttpAccepted(http) == http \in {"result", "null", "late", "garbled"}
\* lynx-cli exits 0 and prints the transaction id
CliAccepted(cli) == cli \in {"json", "raw"}

\* the transactions the daemon's wallet created for the calls made
TransactionsCreated(calls, http, cli) ==
    Cardinality({k \in 1..Len(calls) :
        \/ /\ calls[k].via = "http"
           /\ calls[k].method = M_sendtoaddress
           /\ HttpAccepted(http)
        \/ /\ calls[k].via = "cli"
           /\ calls[k].argv[2] = M_sendtoaddress
           /\ CliAccepted(cli)})

\* rpc.py:196-217, with what the daemon did
SendToAddressSubmitted ==
    /\ rpc.pc = "idle"
    /\ \E address \in Addresses, amount \in Amounts :
       \E http \in SubmitHttpKinds, cli \in SendCliKinds, value \in SendValues :
       \E r \in {SendToAddress(address, amount, http, cli, value)} :
          rpc' = [pc |-> "done", op |-> "sendtoaddress", address |-> address,
                  amount |-> amount, calls |-> r.calls, result |-> r.result,
                  raised |-> r.raised, http |-> http, cli |-> cli,
                  created |-> TransactionsCreated(r.calls, http, cli)]
    /\ UNCHANGED <<logVars, geoVars, ui, grid>>

\* rpc.py:219-239, with what the daemon did
SweepToAddressSubmitted ==
    /\ rpc.pc = "idle"
    /\ \E address \in Addresses :
       \E balHttp \in {"result", "connection"}, balCli \in {"json", "nonzero"} :
       \E balValue \in BalanceValues :
       \E http \in SubmitHttpKinds, cli \in SendCliKinds, value \in SendValues :
       \E r \in {SweepToAddress(address, balHttp, balCli, balValue, http, cli, value)} :
       \E balance \in {SafeCall(M_getbalance, PyNone, balHttp, balCli, balCli,
                                balValue).result} :
          rpc' = [pc |-> "done", op |-> "sweep_to_address", address |-> address,
                  balance |-> balance, calls |-> r.calls, result |-> r.result,
                  raised |-> r.raised, http |-> http, cli |-> cli,
                  created |-> TransactionsCreated(r.calls, http, cli)]
    /\ UNCHANGED <<logVars, geoVars, ui, grid>>

NextSubmit ==
    \/ SendToAddressSubmitted
    \/ SweepToAddressSubmitted
    \/ RpcReturns

SpecSubmit == InitRpc /\ [][NextSubmit]_vars

(***************************************************************************)
(* restore_wallet, rpc.py:368-399.  A step is one call of the daemon or    *)
(* the copy of the backup over wallet.dat, with whether it succeeded.      *)
(***************************************************************************)
\* what _safe_call("listwallets") may give: nothing, no wallet, one wallet,
\* text that is not JSON, a number, an object
WalletsValues ==
    {PyNone, PyList(<<>>), PyList(<<PyStr(<<"w">>)>>), PyStr(RawText), PyNum(1),
     PyDict([k \in {Key_txid} |-> PyStr(Txid_ab)])}
\* what a run of lynx-cli by _cli_run_ok comes to
CliRunKinds == {"zero", "nonzero", "exec_error"}
\* what the HTTP calls of restore_wallet come to
RestoreHttpKinds == {"result", "null", "connection", "rpc_error"}
\* shutil.copy2: done, refused before a byte was written, broken off midway
CopyKinds == {"copied", "refused", "broken_off"}

\* rpc.py:340-348
CliRunOk(cli) == cli = "zero"

\* rpc.py:377-378: wallets[0] if wallets else "", [raised, name]
WalletName(listed) ==
    LET wallets == Or(listed, PyList(<<>>)) IN
    IF ~Truthy(wallets) THEN [raised |-> "none", name |-> <<>>]
    ELSE IF wallets.type = "list" THEN [raised |-> "none", name |-> wallets.items[1].text]
    ELSE IF wallets.type = "str" THEN [raised |-> "none", name |-> <<wallets.text[1]>>]
    ELSE IF wallets.type = "dict" THEN [raised |-> "KeyError", name |-> <<>>]
    ELSE [raised |-> "TypeError", name |-> <<>>]

Step(step, via, ok) == [step |-> step, via |-> via, ok |-> ok]
Restored(success, message, steps, wallet_dat) ==
    [success |-> success, message |-> message, steps |-> steps,
     wallet_dat |-> wallet_dat, raised |-> "none"]

\* rpc.py:380-384 and 391-398: the call over HTTP, then lynx-cli when it raised
HttpThenCli(method, http, cli) ==
    IF ~RpcCall(http, PyNone).raised THEN <<Step(method, "http", TRUE)>>
    ELSE <<Step(method, "http", FALSE), Step(method, "cli", CliRunOk(cli))>>

\* a failed copy after which the wallet is left unloaded
AfterCopyFailed_NoLoad(steps, copy, loadHttp, loadCli) ==
    Restored(FALSE, "Copy failed", Append(steps, Step("copy", "shutil", FALSE)),
             IF copy = "refused" THEN "unchanged" ELSE "partial")

\* rpc.py:387-392
AfterCopyFailed(steps, copy, loadHttp, loadCli) ==
    Restored(FALSE, "Copy failed",
             Append(steps, Step("copy", "shutil", FALSE))
                 \o HttpThenCli("loadwallet", loadHttp, loadCli),
             IF copy = "refused" THEN "unchanged" ELSE "partial")

\* rpc.py:385-398
CopyAndLoad(steps, copy, loadHttp, loadCli) ==
    IF copy # "copied" THEN AfterCopyFailed(steps, copy, loadHttp, loadCli)
    ELSE LET load == HttpThenCli("loadwallet", loadHttp, loadCli)
             done == Append(steps, Step("copy", "shutil", TRUE)) \o load
         IN  IF load[Len(load)].ok THEN Restored(TRUE, "Restored", done, "backup")
             ELSE Restored(FALSE, "Load failed", done, "backup")

\* rpc.py:368-399: restore_wallet(backup_path)
RestoreWallet(isFile, listed, unloadHttp, unloadCli, copy, loadHttp, loadCli) ==
    IF ~isFile THEN Restored(FALSE, "Backup file not found", <<>>, "unchanged")
    ELSE IF WalletName(listed).raised # "none"
    THEN [Restored(FALSE, "", <<>>, "unchanged") EXCEPT !.raised = WalletName(listed).raised]
    ELSE LET unload == HttpThenCli("unloadwallet", unloadHttp, unloadCli) IN
         IF ~unload[Len(unload)].ok
         THEN Restored(FALSE, "Unload failed", unload, "unchanged")
         ELSE CopyAndLoad(unload, copy, loadHttp, loadCli)

RestoreWalletCalled ==
    /\ rpc.pc = "idle"
    /\ \E isFile \in BOOLEAN, listed \in WalletsValues, copy \in CopyKinds :
       \E unloadHttp \in RestoreHttpKinds, unloadCli \in CliRunKinds :
       \E loadHttp \in RestoreHttpKinds, loadCli \in CliRunKinds :
       \E r \in {RestoreWallet(isFile, listed, unloadHttp, unloadCli, copy,
                               loadHttp, loadCli)} :
          rpc' = [pc |-> "done", op |-> "restore_wallet", isFile |-> isFile,
                  listed |-> listed, copy |-> copy,
                  unload |-> <<unloadHttp, unloadCli>>,
                  load |-> <<loadHttp, loadCli>>, result |-> r]
    /\ UNCHANGED <<logVars, geoVars, ui, grid>>

NextRestore ==
    \/ RestoreWalletCalled
    \/ RpcReturns

SpecRestore == InitRpc /\ [][NextRestore]_vars

(***************************************************************************)
(* The dashboard's refresh cycles (app.py).  on_mount starts the timers;   *)
(* refresh_data is a coroutine that hands its blocking work to the default *)
(* executor and is suspended while that work runs; the peers' locations    *)
(* are resolved in one executor task per cycle.  A timer awaits its        *)
(* callback and the message pump awaits its handler, so each of these      *)
(* three runs one refresh_data at a time; nothing in app.py makes one of   *)
(* them wait for another.                                                  *)
(***************************************************************************)

\* app.py:39
DIFFICULTY_BLOCK_COUNT == 100

\* the peers of one snapshot, the height of the chain tip, the backfill
\* fetches handed to the executor and not yet applied
MaxPeers == 1
MaxTip == 1
MaxInFlight == 2

\* what runs refresh_data: the timer of line 1655, the interval of line 1661
\* and the handlers of keys and buttons
Tasks == {"initial_timer", "interval_timer", "message_pump"}
\* app.py:1655, 2003, 1919, 1842, 1869, 1801, 1892
TriggersOf(task) ==
    IF task = "initial_timer" THEN {"initial"}
    ELSE IF task = "interval_timer" THEN {"auto_refresh_data"}
    ELSE {"action_refresh_all", "send", "sweep", "action_create_new_address",
          "currency-apply"}

\* where a refresh_data coroutine is: not running, awaiting the snapshot and
\* the other data (2017-2030), or awaiting _fetch_peer_locations_and_colors,
\* whose thread has left calls to make (a lookup for each peer, then
\* get_my_location; 0: returned) and is calling, has a request in flight, or
\* is saving
IdleCycle == [pc |-> "idle"]
DataCycle(trigger) == [pc |-> "data", trigger |-> trigger]
GeoCycle(trigger, left, at) ==
    [pc |-> "geo", trigger |-> trigger, left |-> left, at |-> at]

\* app.py:1434, 481: no backfill fetch yet
NoBackfill == [index |-> 0, queued |-> 0, fetched |-> 0, nothing |-> 0]
InFlight(backfill) == backfill.queued + backfill.fetched + backfill.nothing

\* app.py:1654-1674: the state on_mount leaves
Mounted ==
    [pc |-> "mounted", tasks |-> [t \in Tasks |-> IdleCycle], initialFired |-> FALSE,
     backfill |-> NoBackfill, syncing |-> FALSE]

InitRefresh ==
    /\ LogIdle
    /\ GeoIdle
    /\ rpc = NoRpc
    /\ ui = Mounted
    /\ grid = NoGrid

\* app.py:2016-2017: refresh_data is entered, by the timer of line 1655 once,
\* by auto_refresh_data every five seconds, by a handler when the user asks
RefreshDataStarts ==
    /\ ui.pc = "mounted"
    /\ \E task \in Tasks :
       \E trigger \in TriggersOf(task) :
          /\ ui.tasks[task].pc = "idle"
          /\ task = "initial_timer" => ~ui.initialFired
          /\ ui' = [ui EXCEPT !.tasks[task] = DataCycle(trigger),
                              !.initialFired = @ \/ task = "initial_timer"]
    /\ UNCHANGED <<logVars, geoVars, rpc, grid>>

\* app.py:2017-2214: the data is there; the geo task is handed to the executor
DataFetched ==
    /\ ui.pc = "mounted"
    /\ \E task \in Tasks, peers \in 0..MaxPeers :
          /\ ui.tasks[task].pc = "data"
          /\ ui' = [ui EXCEPT !.tasks[task] =
                        GeoCycle(ui.tasks[task].trigger, peers + 1, "call")]
    /\ UNCHANGED <<logVars, geoVars, rpc, grid>>

\* app.py:2187-2202: the thread calls lookup(host) or, after the last peer,
\* get_my_location(): answered from the cache, or a request goes out
GeoCalled ==
    /\ ui.pc = "mounted"
    /\ \E task \in Tasks, hit \in BOOLEAN :
          /\ ui.tasks[task].pc = "geo"
          /\ ui.tasks[task].at = "call"
          /\ ui.tasks[task].left > 0
          /\ ui' = [ui EXCEPT !.tasks[task] =
                        IF hit THEN [@ EXCEPT !.left = @ - 1]
                        ELSE [@ EXCEPT !.at = "request"]]
    /\ UNCHANGED <<logVars, geoVars, rpc, grid>>

\* geolocation.py:146-150, 161-182: the request ends; a result is saved
GeoRequestEnds ==
    /\ ui.pc = "mounted"
    /\ \E task \in Tasks, ok \in BOOLEAN :
          /\ ui.tasks[task].pc = "geo"
          /\ ui.tasks[task].at = "request"
          /\ ui' = [ui EXCEPT !.tasks[task] =
                        IF ok THEN [@ EXCEPT !.at = "save"]
                        ELSE [@ EXCEPT !.left = @ - 1, !.at = "call"]]
    /\ UNCHANGED <<logVars, geoVars, rpc, grid>>

\* geolocation.py:51-57: the cache file is written
GeoSaveEnds ==
    /\ ui.pc = "mounted"
    /\ \E task \in Tasks :
          /\ ui.tasks[task].pc = "geo"
          /\ ui.tasks[task].at = "save"
          /\ ui' = [ui EXCEPT !.tasks[task] = [@ EXCEPT !.left = @ - 1, !.at = "call"]]
    /\ UNCHANGED <<logVars, geoVars, rpc, grid>>

\* app.py:2206-2460: the geo task returned; the widgets are updated, the
\* chart told whether the node is syncing (2427-2428)
RefreshDataEnds ==
    /\ ui.pc = "mounted"
    /\ \E task \in Tasks, is_syncing \in BOOLEAN :
          /\ ui.tasks[task].pc = "geo"
          /\ ui.tasks[task].left = 0
          /\ ui' = [ui EXCEPT !.tasks[task] = IdleCycle, !.syncing = is_syncing]
    /\ UNCHANGED <<logVars, geoVars, rpc, grid>>

\* app.py:1706-1718: _difficulty_backfill_tick, every 0.1 s
DifficultyBackfillTick ==
    /\ ui.pc = "mounted"
    /\ ui.backfill.index < DIFFICULTY_BLOCK_COUNT
    /\ ~ui.syncing
    /\ InFlight(ui.backfill) < MaxInFlight
    /\ ui' = [ui EXCEPT !.backfill.queued = @ + 1]
    /\ UNCHANGED <<logVars, geoVars, rpc, grid>>

\* app.py:1680-1704: _fetch_one_difficulty_for_backfill in the executor:
\* the block at tip - index, None below the first block or when a query fails
FetchOneDifficultyForBackfill ==
    /\ ui.pc = "mounted"
    /\ ui.backfill.queued > 0
    /\ \E answered \in BOOLEAN :
          ui' = IF answered /\ MaxTip - ui.backfill.index >= 0
                THEN [ui EXCEPT !.backfill.queued = @ - 1, !.backfill.fetched = @ + 1]
                ELSE [ui EXCEPT !.backfill.queued = @ - 1, !.backfill.nothing = @ + 1]
    /\ UNCHANGED <<logVars, geoVars, rpc, grid>>

\* app.py:1712-1723: _do resumes: a value is applied and the index moves on
ApplyDifficultyBackfill ==
    /\ ui.pc = "mounted"
    /\ \/ /\ ui.backfill.fetched > 0
          /\ ui' = [ui EXCEPT !.backfill.fetched = @ - 1, !.backfill.index = @ + 1]
       \/ /\ ui.backfill.nothing > 0
          /\ ui' = [ui EXCEPT !.backfill.nothing = @ - 1]
    /\ UNCHANGED <<logVars, geoVars, rpc, grid>>

NextRefresh ==
    \/ RefreshDataStarts
    \/ DataFetched
    \/ GeoCalled
    \/ GeoRequestEnds
    \/ GeoSaveEnds
    \/ RefreshDataEnds
    \/ DifficultyBackfillTick
    \/ FetchOneDifficultyForBackfill
    \/ ApplyDifficultyBackfill

SpecRefresh == InitRefresh /\ [][NextRefresh]_vars

(***************************************************************************)
(* The dashboard's timers that can be started again while an earlier one   *)
(* is pending (app.py).  set_timer and set_interval return a timer that    *)
(* stays pending until it is stopped or, for set_timer, until it fired;    *)
(* the timers made are numbered in the order they are made.                *)
(***************************************************************************)

\* app.py:400, 678: the ticks of one blink animation
BlinkTicks == 18
\* the timers made in one run
MaxTimers == 3

\* the attributes that hold a timer: PeerMapCard._blink_timer (339),
\* PeerListPanel._blink_timer, CustomHeader._reset_timer (130),
\* _send_txid_timer (1414), _sweep_txid_timer (1415); the timer of
\* action_cycle_theme (1940) is held by nothing
Cards == {"peer_map", "peer_list"}
TxidCards == {"send", "sweep"}
HeldTimers == Cards \cup TxidCards \cup {"reset"}
TimerNames == HeldTimers \cup {"theme"}

\* a stop() that leaves the timer pending
Stopped_Never(pending, held) == pending

\* Timer.stop(): the timer an attribute holds is not pending any more; None
\* (0) stops nothing
Stopped(pending, held) == pending \ {held}

\* app.py:127-130, 338-339, 1414-1415, 224-225: nothing pending
NoTimers ==
    [pc |-> "timers", made |-> 0,
     held |-> [name \in HeldTimers |-> 0],
     pending |-> [name \in TimerNames |-> {}],
     latest |-> [name \in TimerNames |-> 0],
     blink_count |-> [card \in Cards |-> 0],
     blink_visible |-> [card \in Cards |-> TRUE],
     blinking |-> [card \in Cards |-> FALSE],
     indicator_state |-> "green",
     txid |-> [card \in TxidCards |-> FALSE],
     theme_visible |-> FALSE,
     late |-> FALSE]

InitTimers ==
    /\ LogIdle
    /\ GeoIdle
    /\ rpc = NoRpc
    /\ ui = NoTimers
    /\ grid = NoGrid

\* a timer of that name is made: the next number, pending
Made(u, name) ==
    [u EXCEPT !.made = @ + 1,
              !.pending[name] = @ \cup {u.made + 1},
              !.latest[name] = u.made + 1]
\* the same, after the timer the attribute holds was stopped, and held
Restarted(u, name) ==
    [Made([u EXCEPT !.pending[name] = Stopped(@, u.held[name])], name)
        EXCEPT !.held[name] = u.made + 1]
\* a timer fires that is not the latest of its name
Late(u, name, id) == u.late \/ id # u.latest[name]

\* app.py:349-373 and 646-671: update_peers / update_lines with and without
\* blink_indices
UpdatePeers ==
    /\ ui.pc = "timers"
    /\ \E card \in Cards, blink_indices \in BOOLEAN :
          IF blink_indices
          THEN /\ ui.made < MaxTimers
               /\ ui' = [Restarted(ui, card) EXCEPT !.blinking[card] = TRUE,
                                                    !.blink_visible[card] = TRUE,
                                                    !.blink_count[card] = 0]
          ELSE ui' = [ui EXCEPT !.blinking[card] = FALSE]
    /\ UNCHANGED <<logVars, geoVars, rpc, grid>>

\* app.py:396-405 and 674-683: _blink_tick of a pending interval
BlinkTick ==
    /\ ui.pc = "timers"
    /\ \E card \in Cards :
       \E id \in ui.pending[card] :
       \E u \in {[ui EXCEPT !.blink_visible[card] = ~@,
                            !.blink_count[card] = @ + 1,
                            !.late = Late(ui, card, id)]} :
          ui' = IF u.blink_count[card] >= BlinkTicks
                THEN [u EXCEPT !.pending[card] = Stopped(@, u.held[card]),
                               !.held[card] = 0,
                               !.blinking[card] = FALSE,
                               !.blink_visible[card] = TRUE]
                ELSE u
    /\ UNCHANGED <<logVars, geoVars, rpc, grid>>

\* app.py:137-143: set_indicator(state)
SetIndicator ==
    /\ ui.pc = "timers"
    /\ \E state \in {"green", "yellow", "blue"} :
          IF state # "green"
          THEN /\ ui.made < MaxTimers
               /\ ui' = [Restarted(ui, "reset") EXCEPT !.indicator_state = state]
          ELSE ui' = [ui EXCEPT !.indicator_state = state,
                                !.pending["reset"] = Stopped(@, ui.held["reset"])]
    /\ UNCHANGED <<logVars, geoVars, rpc, grid>>

\* app.py:145-147: reset_indicator, when the timer fires
ResetIndicator ==
    /\ ui.pc = "timers"
    /\ \E id \in ui.pending["reset"] :
          ui' = [ui EXCEPT !.indicator_state = "green",
                           !.pending["reset"] = @ \ {id},
                           !.late = Late(ui, "reset", id)]
    /\ UNCHANGED <<logVars, geoVars, rpc, grid>>

\* app.py:1835-1841 and 1862-1868: a send or a sweep succeeded
TxidShown ==
    /\ ui.pc = "timers"
    /\ ui.made < MaxTimers
    /\ \E card \in TxidCards :
          ui' = [Restarted(ui, card) EXCEPT !.txid[card] = TRUE]
    /\ UNCHANGED <<logVars, geoVars, rpc, grid>>

\* app.py:1841, 1868, 912, 956: clear_txid, when the timer fires
ClearTxid ==
    /\ ui.pc = "timers"
    /\ \E card \in TxidCards :
       \E id \in ui.pending[card] :
          ui' = [ui EXCEPT !.txid[card] = FALSE,
                           !.pending[card] = @ \ {id},
                           !.late = Late(ui, card, id)]
    /\ UNCHANGED <<logVars, geoVars, rpc, grid>>

\* app.py:1926-1942: action_cycle_theme
ActionCycleTheme ==
    /\ ui.pc = "timers"
    /\ ui.made < MaxTimers
    /\ ui' = [Made(ui, "theme") EXCEPT !.theme_visible = TRUE]
    /\ UNCHANGED <<logVars, geoVars, rpc, grid>>

\* app.py:1944-1947: _hide_theme_from_status_bar, when a timer fires
HideThemeFromStatusBar ==
    /\ ui.pc = "timers"
    /\ \E id \in ui.pending["theme"] :
          ui' = [ui EXCEPT !.theme_visible = FALSE,
                           !.pending["theme"] = @ \ {id},
                           !.late = Late(ui, "theme", id)]
    /\ UNCHANGED <<logVars, geoVars, rpc, grid>>

NextTimers ==
    \/ UpdatePeers
    \/ BlinkTick
    \/ SetIndicator
    \/ ResetIndicator
    \/ TxidShown
    \/ ClearTxid
    \/ ActionCycleTheme
    \/ HideThemeFromStatusBar

SpecTimers == InitTimers /\ [][NextTimers]_vars

\* the blink animations alone; an interval timer fires every 0.2 s for as
\* long as it is pending
NextBlink ==
    \/ UpdatePeers
    \/ BlinkTick

SpecBlink == InitTimers /\ [][NextBlink]_vars /\ WF_vars(BlinkTick)

(***************************************************************************)
(* The new-block notification and the difficulty chart (app.py).  The tail *)
(* of refresh_data hands update_status to a 0.5 s timer; update_status     *)
(* compares the observed height with _last_notified_block_height and hands *)
(* _fetch_and_notify to call_later; the backfill tick of every 0.1 s       *)
(* starts a fetch in the executor whose result is applied on the UI        *)
(* thread.  A difficulty is kept as a number that tells the block it       *)
(* belongs to, except on a chain whose blocks all have one difficulty.     *)
(***************************************************************************)
\* most blocks the daemon connects
MaxBlocks == 2
\* most refresh cycles that end
MaxRefreshes == 3
\* most refresh cycles that end while the chart is filled
MaxChartRefreshes == 2
\* most blocks the daemon connects while the chart is filled
MaxChartBlocks == 1

\* the difficulty of the block at a height
DifficultyAt(flat, height) == IF flat THEN 1 ELSE height

\* app.py:2504-2511: bh, from the "blocks" of getblockchaininfo or else from
\* the text of lynx-cli getblockcount
ObservedHeight(blocks, block_height_cli) ==
    IF blocks # PyNone
    THEN IF blocks.type = "num" THEN Some(blocks.n)
         ELSE IF blocks.type = "str" /\ IsDecimalText(blocks.text)
         THEN Some(DecimalValue(blocks.text))
         ELSE None
    ELSE IF IsDecimalText(block_height_cli) THEN Some(DecimalValue(block_height_cli))
    ELSE None

\* a comparison that lets an equal height through
IsNewBlock_OrEqual(bh, last) == bh >= last

\* app.py:2515
IsNewBlock(bh, last) == bh > last

\* app.py:509-519: update_difficulty
UpdateDifficulty(data, value, prepend) ==
    IF prepend
    THEN LET inserted == <<value>> \o data IN
         IF Len(inserted) > DIFFICULTY_BLOCK_COUNT
         THEN SubSeq(inserted, 1, Len(inserted) - 1) ELSE inserted
    ELSE LET appended == Append(data, value) IN
         IF Len(appended) > DIFFICULTY_BLOCK_COUNT
         THEN SubSeq(appended, Len(appended) - DIFFICULTY_BLOCK_COUNT + 1, Len(appended))
         ELSE appended

\* app.py:1434, 1475, 478: the dashboard before its first refresh, on a chain
\* of `tip` blocks of which `blocks` more may come in `refreshes` cycles
Chart(tip, flat, blocks, refreshes) ==
    [pc |-> "chart", tip |-> tip, flat |-> flat, blocks |-> blocks,
     refreshes |-> refreshes, last |-> None, seen |-> {}, notified |-> <<>>,
     status |-> <<>>, later |-> <<>>, data |-> <<>>, index |-> 0, queued |-> 0,
     fetched |-> <<>>, syncing |-> FALSE]

\* a young chain whose blocks have each their difficulty
InitNotify ==
    /\ LogIdle
    /\ GeoIdle
    /\ rpc = NoRpc
    /\ \E tip \in {0, 1} : ui = Chart(tip, FALSE, MaxBlocks, MaxRefreshes)
    /\ grid = NoGrid

\* such a chain, or a chain longer than the chart, all blocks of one
\* difficulty
InitChart ==
    /\ LogIdle
    /\ GeoIdle
    /\ rpc = NoRpc
    /\ ui \in {Chart(1, FALSE, MaxChartBlocks, MaxChartRefreshes),
                Chart(DIFFICULTY_BLOCK_COUNT + 50, TRUE, MaxChartBlocks,
                      MaxChartRefreshes)}
    /\ grid = NoGrid

\* the daemon connects a block
BlockConnected ==
    /\ ui.pc = "chart"
    /\ ui.blocks > 0
    /\ ui' = [ui EXCEPT !.tip = @ + 1, !.blocks = @ - 1]
    /\ UNCHANGED <<logVars, geoVars, rpc, grid>>

\* what a cycle may have read: the tip or, in a cycle that began earlier or
\* fell back to another query, the height before; no height at all
HeightsRead == {h \in {ui.tip - 1, ui.tip} : h >= 0}
BlocksRead == {PyNone, PyStr(<<"x">>)} \cup {PyNum(h) : h \in HeightsRead}
CliRead == {<<"l", "o", "a", "d", "i", "n", "g">>, Decimal(ui.tip)}

\* app.py:2427-2428 and 2556: the tail of refresh_data sets the chart's
\* syncing flag and hands update_status to a timer
RefreshDataTail ==
    /\ ui.pc = "chart"
    /\ ui.refreshes > 0
    /\ \E blocks \in BlocksRead, block_height_cli \in CliRead :
       \E best_hash \in {None, Some(ui.tip)}, is_syncing \in BOOLEAN :
          ui' = [ui EXCEPT !.refreshes = @ - 1,
                           !.syncing = is_syncing,
                           !.status = Append(@, [bh |-> ObservedHeight(blocks,
                                                                       block_height_cli),
                                                 best_hash |-> best_hash])]
    /\ UNCHANGED <<logVars, geoVars, rpc, grid>>

\* app.py:2500-2542: update_status, as far as the notification goes
UpdateStatus ==
    /\ ui.pc = "chart"
    /\ ui.status # <<>>
    /\ LET cycle == Head(ui.status)
           rest == [ui EXCEPT !.status = Tail(@)]
       IN  IF cycle.bh = None THEN ui' = rest
           ELSE LET bh == Val(cycle.bh)
                    seen == [rest EXCEPT !.seen = @ \cup {bh}]
                IN  IF ui.last = None THEN ui' = [seen EXCEPT !.last = Some(bh)]
                    ELSE IF IsNewBlock(bh, Val(ui.last))
                    THEN IF cycle.best_hash # None
                         THEN ui' = [seen EXCEPT !.last = Some(bh),
                                                 !.later = Append(@, cycle)]
                         ELSE ui' = [seen EXCEPT !.last = Some(bh),
                                                 !.notified = Append(@, bh)]
                    ELSE ui' = seen
    /\ UNCHANGED <<logVars, geoVars, rpc, grid>>

\* app.py:2519-2541: _fetch_and_notify: with the block the notification is
\* raised and its difficulty put first, without it the notification alone
FetchAndNotify ==
    /\ ui.pc = "chart"
    /\ ui.later # <<>>
    /\ \E block \in BOOLEAN :
          ui' = IF block
                THEN [ui EXCEPT !.later = Tail(@),
                                !.notified = Append(@, Val(Head(ui.later).bh)),
                                !.data = UpdateDifficulty(@,
                                            DifficultyAt(ui.flat,
                                                         Val(Head(ui.later).best_hash)),
                                            TRUE)]
                ELSE [ui EXCEPT !.later = Tail(@),
                                !.notified = Append(@, Val(Head(ui.later).bh))]
    /\ UNCHANGED <<logVars, geoVars, rpc, grid>>

\* app.py:1706-1718: _difficulty_backfill_tick, every 0.1 s
BackfillTick ==
    /\ ui.pc = "chart"
    /\ ui.index < DIFFICULTY_BLOCK_COUNT
    /\ ~ui.syncing
    /\ ui.queued + Len(ui.fetched) < MaxInFlight
    /\ ui' = [ui EXCEPT !.queued = @ + 1]
    /\ UNCHANGED <<logVars, geoVars, rpc, grid>>

\* app.py:1680-1704: _fetch_one_difficulty_for_backfill in the executor
BackfillFetch ==
    /\ ui.pc = "chart"
    /\ ui.queued > 0
    /\ \E answered \in BOOLEAN :
          LET height == ui.tip - ui.index
              result == IF answered /\ height >= 0
                        THEN Some(DifficultyAt(ui.flat, height)) ELSE None
          IN  ui' = [ui EXCEPT !.queued = @ - 1, !.fetched = Append(@, result)]
    /\ UNCHANGED <<logVars, geoVars, rpc, grid>>

\* app.py:1712-1723: _do resumes and _apply_difficulty_backfill
BackfillApply ==
    /\ ui.pc = "chart"
    /\ ui.fetched # <<>>
    /\ ui' = IF Head(ui.fetched) # None
             THEN [ui EXCEPT !.fetched = Tail(@),
                             !.data = UpdateDifficulty(@, Val(Head(ui.fetched)), FALSE),
                             !.index = @ + 1]
             ELSE [ui EXCEPT !.fetched = Tail(@)]
    /\ UNCHANGED <<logVars, geoVars, rpc, grid>>

\* the notification alone, before the backfill interval is started
NextNotify ==
    \/ BlockConnected
    \/ RefreshDataTail
    \/ UpdateStatus
    \/ FetchAndNotify

SpecNotify == InitNotify /\ [][NextNotify]_vars

NextChart ==
    \/ BlockConnected
    \/ RefreshDataTail
    \/ UpdateStatus
    \/ FetchAndNotify
    \/ BackfillTick
    \/ BackfillFetch
    \/ BackfillApply

SpecChart == InitChart /\ [][NextChart]_vars

(***************************************************************************)
(* The peer map (map_renderer.py): generate_map puts the markers on a grid *)
(* of cols x rows cells, one after another, and renders the grid.  The     *)
(* markers of the call are taken one at a time as the loop reaches them.   *)
(***************************************************************************)

\* map_renderer.py:12
LAT_SOUTH_LIMIT == -60
\* map_renderer.py:27-53: len(PEER_COLORS)
PeerColors == 125
\* the markers of one call
MaxMarkers == 10

\* the same without the limits
Clamp_Off(x, limit) == x

\* max(0, min(limit - 1, x))
Clamp(x, limit) == IF x < 0 THEN 0 ELSE IF x > limit - 1 THEN limit - 1 ELSE x

\* map_renderer.py:128-134: col_for_lon(lon)
ColForLon(lon, center_lon, cols) ==
    IF center_lon # None
    THEN Clamp(((((lon - Val(center_lon) + 180) % 360) - 180 + 180) * cols) \div 360, cols)
    ELSE Clamp(((lon + 180) * cols) \div 360, cols)

\* map_renderer.py:146-150: the base cell of a marker (lat, lon)
BaseCell(marker, center_lon, cols, rows) ==
    <<Clamp(ColForLon(marker[2], center_lon, cols), cols),
      Clamp(((90 - marker[1]) * rows) \div (90 - LAT_SOUTH_LIMIT), rows)>>

\* map_renderer.py:140-144: the ring r around (0, 0), in the order of the
\* loops: dc ascending, then dr ascending
Ring(r) ==
    {<<dc, dr>> : dc \in -r..r, dr \in -r..r} \ {<<dc, dr>> : dc \in 1-r..r-1, dr \in 1-r..r-1}
Before(a, b) == a[1] < b[1] \/ (a[1] = b[1] /\ a[2] < b[2])
RECURSIVE InOrder(_)
InOrder(S) ==
    IF S = {} THEN <<>>
    ELSE <<The({a \in S : \A b \in S \ {a} : Before(a, b)})>>
         \o InOrder(S \ {The({a \in S : \A b \in S \ {a} : Before(a, b)})})
Offsets == <<<<0, 0>>>> \o InOrder(Ring(1)) \o InOrder(Ring(2))

\* map_renderer.py:151-157: the offsets that give a free cell of the grid
InGrid(cell, cols, rows) ==
    0 <= cell[1] /\ cell[1] < cols /\ 0 <= cell[2] /\ cell[2] < rows
CellAt(base, k) == <<base[1] + Offsets[k][1], base[2] + Offsets[k][2]>>
FreeOffsets(marker_cells, base, cols, rows) ==
    {k \in 1..Len(Offsets) :
        InGrid(CellAt(base, k), cols, rows) /\ CellAt(base, k) \notin DOMAIN marker_cells}

\* marker_cells[cell] = peer_idx
Assign(marker_cells, cell, peer_idx) ==
    [c \in DOMAIN marker_cells \cup {cell} |-> IF c = cell THEN peer_idx ELSE marker_cells[c]]

\* the same loop without the search: every marker on its base cell
Place_OnBase(marker_cells, base, peer_idx, cols, rows) ==
    Assign(marker_cells, base, peer_idx)

\* map_renderer.py:151-157: the first free cell in the order of the offsets,
\* else the base cell
Place(marker_cells, base, peer_idx, cols, rows) ==
    IF FreeOffsets(marker_cells, base, cols, rows) # {}
    THEN Assign(marker_cells,
                CellAt(base, The({k \in FreeOffsets(marker_cells, base, cols, rows) :
                                    \A j \in FreeOffsets(marker_cells, base, cols, rows) : k <= j})),
                peer_idx)
    ELSE Assign(marker_cells, base, peer_idx)

\* map_renderer.py:158-183: what a cell shows: a marker in the colour of its
\* peer, dimmed while it blinks off, or the map (land or water)
Cells(cols, rows) == {<<c, r>> : c \in 0..cols - 1, r \in 0..rows - 1}
Shown(marker_cells, cell, blink_indices, blink_visible) ==
    IF cell \in DOMAIN marker_cells
    THEN [marker |-> marker_cells[cell],
          color |-> IF marker_cells[cell] \in blink_indices /\ ~blink_visible
                    THEN "BLINK_DIM"
                    ELSE "PEER_COLORS",
          index |-> marker_cells[cell] % PeerColors]
    ELSE [map |-> "land or water"]
Rendered(marker_cells, cols, rows, blink_indices, blink_visible) ==
    [kind |-> "Group",
     cells |-> [cell \in Cells(cols, rows) |->
                   Shown(marker_cells, cell, blink_indices, blink_visible)]]
MapText(text) == [kind |-> "Text", text |-> text]

\* the grids, centres, markers (lat, lon) and blink arguments of the calls
GridSizes == {<<10, 5>>, <<9, 5>>, <<10, 4>>}
Centers == {None, Some(-100)}
MarkerPoints == {<<90, -180>>, <<75, -170>>}
Blinks == {[indices |-> {}, visible |-> TRUE], [indices |-> {0}, visible |-> FALSE]}
\* map_renderer.py:109-116: what loading the map data comes to
GeometryKinds == {"loaded", "unavailable", "index_failed"}

NoMarkerCells == [cell \in {} |-> 0]

InitGrid ==
    /\ LogIdle
    /\ GeoIdle
    /\ rpc = NoRpc
    /\ ui = NoUi
    /\ grid = NoGrid

\* map_renderer.py:91-137: generate_map is called
GenerateMap ==
    /\ grid.pc = "idle"
    /\ \E size \in GridSizes, center_lon \in Centers, geometries \in GeometryKinds :
          grid' = IF size[1] < 10 \/ size[2] < 5
                  THEN [pc |-> "done", cols |-> size[1], rows |-> size[2],
                        geometries |-> geometries,
                        result |-> MapText("(map too small)")]
                  ELSE IF geometries = "unavailable"
                  THEN [pc |-> "done", cols |-> size[1], rows |-> size[2],
                        geometries |-> geometries,
                        result |-> MapText("(map data unavailable)")]
                  ELSE IF geometries = "index_failed"
                  THEN [pc |-> "done", cols |-> size[1], rows |-> size[2],
                        geometries |-> geometries,
                        result |-> MapText("(map init failed)")]
                  ELSE [pc |-> "placing", cols |-> size[1], rows |-> size[2],
                        center_lon |-> center_lon, markers |-> <<>>,
                        marker_cells |-> NoMarkerCells]
    /\ UNCHANGED <<logVars, geoVars, rpc, ui>>

\* map_renderer.py:145-157: one turn of the loop over the markers
PlaceMarker ==
    /\ grid.pc = "placing"
    /\ Len(grid.markers) < MaxMarkers
    /\ \E marker \in MarkerPoints :
          grid' = [grid EXCEPT
                      !.markers = Append(@, marker),
                      !.marker_cells =
                          Place(@, BaseCell(marker, grid.center_lon, grid.cols, grid.rows),
                                Len(grid.markers), grid.cols, grid.rows)]
    /\ UNCHANGED <<logVars, geoVars, rpc, ui>>

\* map_renderer.py:158-185: the rows are rendered
RenderMap ==
    /\ grid.pc = "placing"
    /\ \E blink \in Blinks :
          grid' = [pc |-> "done", cols |-> grid.cols, rows |-> grid.rows,
                   center_lon |-> grid.center_lon, markers |-> grid.markers,
                   marker_cells |-> grid.marker_cells,
                   result |-> Rendered(grid.marker_cells, grid.cols, grid.rows,
                                       blink.indices, blink.visible)]
    /\ UNCHANGED <<logVars, geoVars, rpc, ui>>

\* app.py:407-420: the widget shows the result
MapReturns ==
    /\ grid.pc = "done"
    /\ grid' = NoGrid
    /\ UNCHANGED <<logVars, geoVars, rpc, ui>>

\* markers anywhere, also off the map: latitudes south of the cutoff and
\* beyond the poles, longitudes beyond +-180
MaxFarMarkers == 2
FarPoints ==
    {<<0, 0>>, <<-60, -180>>, <<-61, 180>>, <<-90, 179>>, <<-150, 0>>, <<91, 181>>,
     <<90, -541>>, <<45, 900>>}

\* map_renderer.py:145-157: one turn of the loop, for a marker anywhere
PlaceFarMarker ==
    /\ grid.pc = "placing"
    /\ Len(grid.markers) < MaxFarMarkers
    /\ \E marker \in FarPoints :
          grid' = [grid EXCEPT
                      !.markers = Append(@, marker),
                      !.marker_cells =
                          Place(@, BaseCell(marker, grid.center_lon, grid.cols, grid.rows),
                                Len(grid.markers), grid.cols, grid.rows)]
    /\ UNCHANGED <<logVars, geoVars, rpc, ui>>

NextFarGrid ==
    \/ GenerateMap
    \/ PlaceFarMarker
    \/ RenderMap
    \/ MapReturns

SpecFarGrid == InitGrid /\ [][NextFarGrid]_vars

NextGrid ==
    \/ GenerateMap
    \/ PlaceMarker
    \/ RenderMap
    \/ MapReturns

SpecGrid == InitGrid /\ [][NextGrid]_vars

(***************************************************************************)
(* The log tailer as a state machine: the daemon writes debug.log, the     *)
(* dashboard calls get_update_tip_entries and drops the result.            *)
(***************************************************************************)
InitLog == LogIdle /\ GeoIdle /\ RestIdle

\* the daemon appends one line
DaemonAppend ==
    /\ tipRet = NoCall
    /\ \/ syncLen = 0 /\ Len(log) < MaxLines
       \/ syncLen > 0 /\ Len(log) = syncLen
    /\ \E line \in LogLines : log' = Append(log, line)
    /\ UNCHANGED <<syncLen, tipRet>>
    /\ UNCHANGED <<geoVars, restVars>>

\* the daemon starts on an empty log and logs one UpdateTip per synced block
DaemonSync ==
    /\ tipRet = NoCall
    /\ log = <<>>
    /\ \E n \in SyncSizes :
          /\ log' = [k \in 1..n |-> SyncLine(k)]
          /\ syncLen' = n
    /\ UNCHANGED tipRet
    /\ UNCHANGED <<geoVars, restVars>>

GetUpdateTipEntries ==
    /\ tipRet = NoCall
    /\ \E limit \in Limits : tipRet' = UpdateTipEntries(log, limit)
    /\ UNCHANGED <<log, syncLen>>
    /\ UNCHANGED <<geoVars, restVars>>

\* the caller is done with the rows
DropResult ==
    /\ tipRet # NoCall
    /\ tipRet' = NoCall
    /\ UNCHANGED <<log, syncLen>>
    /\ UNCHANGED <<geoVars, restVars>>

\* a call with any limit, on a file that may be missing or unreadable
GetUpdateTipEntriesOnFile ==
    /\ tipRet = NoCall
    /\ \E limit \in AnyLimits, file \in FileKinds :
          tipRet' = ("file" :> file) @@ GetUpdateTipEntriesOf(file, log, limit)
    /\ UNCHANGED <<log, syncLen>>
    /\ UNCHANGED <<geoVars, restVars>>

NextLogFile ==
    \/ DaemonAppend
    \/ DaemonSync
    \/ GetUpdateTipEntriesOnFile
    \/ DropResult

SpecLogFile == InitLog /\ [][NextLogFile]_vars

NextLog ==
    \/ DaemonAppend
    \/ DaemonSync
    \/ GetUpdateTipEntries
    \/ DropResult

SpecLog == InitLog /\ [][NextLog]_vars

(***************************************************************************)
(* Properties of get_update_tip_entries.                                   *)
(***************************************************************************)
\* positions of the UpdateTip lines of the log
TipIndexes == {i \in 1..Len(log) : log[i].tip}
\* the heights they carry, an unparseable height counting as -1
TipHeights == {Height(log[i]) : i \in TipIndexes}
\* the UpdateTip line of height h that is closest to the end of the file
LastLineAt(h) ==
    log[CHOOSE i \in TipIndexes :
            /\ Height(log[i]) = h
            /\ \A j \in TipIndexes : Height(log[j]) = h => j <= i]
RowIndexes == 1..Len(tipRet.rows)
NoHeightTwice ==
    \A i, j \in RowIndexes : i # j => tipRet.rows[i].height # tipRet.rows[j].height
\* every row shows the newest line of its height
NewestLineKept ==
    \A i \in RowIndexes :
        LET line == LastLineAt(tipRet.rows[i].height) IN
        /\ tipRet.rows[i].time_display = TimeDisplay(line)
        /\ tipRet.entries[i].parsed_time = ParsedTime(line)
        /\ tipRet.entries[i].tx_count = line.txfield

\* C1 as stated: with M distinct heights in the UpdateTip lines (at least one
\* such line) and a limit of at least M, exactly M rows are returned, no height
\* twice, each the newest line of its height.
C1_AsStated ==
    (tipRet.called /\ TipHeights # {} /\ tipRet.limit >= Cardinality(TipHeights)) =>
        /\ Len(tipRet.rows) = Cardinality(TipHeights)
        /\ NoHeightTwice
        /\ NewestLineKept

\* C1 amended: with M >= 1 distinct heights in the UpdateTip lines (a line
\* without a height counting as height -1) and a limit of at least M, exactly
\* min(M, 200) rows are returned, no height twice, each the newest line of its
\* height; without any UpdateTip line the single placeholder row is returned.
C1_Dedup ==
    (tipRet.called /\ tipRet.limit >= Cardinality(TipHeights)) =>
        IF TipHeights = {}
        THEN Len(tipRet.rows) = 1 /\ tipRet.entries = <<>>
        ELSE /\ Len(tipRet.rows) = Min(Cardinality(TipHeights), ScanCap)
             /\ NoHeightTwice
             /\ NewestLineKept

\* a sync of 201 blocks followed by a second line for height 101: 201 heights,
\* 200 rows, and the row of height 101 is the one of the last line
C1_Witness ==
    /\ tipRet.called
    /\ syncLen = ScanCap + 1
    /\ Len(log) = syncLen + 1
    /\ log[Len(log)] = TipLine(Some(101), BadStamp, Some(10))
    /\ tipRet.limit >= Cardinality(TipHeights)
    /\ Cardinality(TipHeights) = ScanCap + 1
    /\ Len(tipRet.rows) = ScanCap
    /\ tipRet.entries[ScanCap].height = 101
    /\ tipRet.entries[ScanCap].parsed_time = None

\* C2: the rows are strictly descending by height, and a row of height -1
\* comes after every row with a real height.
C2_Descending ==
    tipRet.called =>
        /\ \A i, j \in RowIndexes :
               i < j => tipRet.rows[i].height > tipRet.rows[j].height
        /\ \A i, j \in RowIndexes :
               (tipRet.rows[i].height = -1 /\ tipRet.rows[j].height # -1) => j < i

\* three rows from a file that holds the heights in the order -1, 101, 100
C2_Witness ==
    /\ tipRet.called
    /\ Len(log) = 3
    /\ Height(log[1]) = -1 /\ Height(log[2]) = 101 /\ Height(log[3]) = 100
    /\ Len(tipRet.rows) = 3
    /\ tipRet.rows[3].height = -1

\* the log of the end-to-end scenario: one UpdateTip line at height 100 with
\* tx=10, one at height 101 with tx=12, one minute apart, read with limit 10
Scenario100_101 ==
    /\ tipRet.called
    /\ tipRet.limit = 10
    /\ Cardinality(TipIndexes) = 2
    /\ \E i, j \in TipIndexes :
          /\ log[i].hfield = Some(100) /\ log[i].txfield = Some(10)
          /\ log[j].hfield = Some(101) /\ log[j].txfield = Some(12)
          /\ log[i].stamp.iso /\ log[j].stamp.iso
          /\ Abs(log[j].stamp.ticks - log[i].stamp.ticks) = 60 * TicksPerSecond

\* C3 as stated: the scenario yields two rows, height 101 first, with delta
\* "1m 0s" and transaction marker "0 tx".
C3_AsStated ==
    Scenario100_101 =>
        /\ Len(tipRet.rows) = 2
        /\ tipRet.rows[1].height = 101
        /\ tipRet.rows[1].delta_display = "1m 0s"
        /\ tipRet.rows[1].empty_marker = "0 tx"

\* C3 amended: the scenario yields two rows, height 101 first, with delta
\* "1m 0s" and transaction marker "empty".
C3_EndToEnd ==
    Scenario100_101 =>
        /\ Len(tipRet.rows) = 2
        /\ tipRet.rows[1].height = 101
        /\ tipRet.rows[2].height = 100
        /\ tipRet.rows[1].delta_display = "1m 0s"
        /\ tipRet.rows[1].empty_marker = "empty"

C3_Witness == Scenario100_101 /\ Len(log) = 3 /\ ~log[2].tip

\* rows that have a next-older entry (which may lie beyond the rows returned)
RowsWithOlder == {i \in RowIndexes : i + 1 <= Len(tipRet.entries)}
TimedRows ==
    {i \in RowsWithOlder : /\ tipRet.entries[i].parsed_time # None
                           /\ tipRet.entries[i + 1].parsed_time # None}
CountedRows ==
    {i \in RowsWithOlder : /\ tipRet.entries[i].tx_count # None
                           /\ tipRet.entries[i + 1].tx_count # None}
\* |T_i - T_(i+1)| in whole seconds
WholeSecondsApart(i) ==
    Abs(Val(tipRet.entries[i].parsed_time) - Val(tipRet.entries[i + 1].parsed_time))
        \div TicksPerSecond
MinutesSeconds(d) ==
    IF d >= 60 THEN ToString(d \div 60) \o "m " \o ToString(d % 60) \o "s"
    ELSE ToString(d) \o "s"

\* C4: a row whose timestamp and whose next-older entry's timestamp parsed
\* shows their absolute difference in whole seconds, as "Xm Ys" from 60
\* seconds on and as "Ys" below.
C4_Delta ==
    tipRet.called =>
        \A i \in TimedRows :
            tipRet.rows[i].delta_display = MinutesSeconds(WholeSecondsApart(i))

\* the newer row carries the earlier timestamp, 61.5 seconds before the next
\* older entry, which lies beyond the single row returned
C4_Witness ==
    /\ tipRet.called
    /\ tipRet.limit = 1
    /\ 1 \in TimedRows
    /\ Val(tipRet.entries[1].parsed_time) < Val(tipRet.entries[2].parsed_time)
    /\ WholeSecondsApart(1) > 60
    /\ tipRet.rows[1].delta_display = ToString(WholeSecondsApart(1) \div 60) \o "m "
                                        \o ToString(WholeSecondsApart(1) % 60) \o "s"

TxOf(i) == Val(tipRet.entries[i].tx_count)

HexDigits == <<"0", "1", "2", "3", "4", "5", "6", "7", "8", "9",
               "a", "b", "c", "d", "e", "f">>

\* the part of a text before the n-th separator and after the one before it
Field(text, sep, n) ==
    LET seps == {i \in 1..Len(text) : text[i] = sep}
        ends == {i \in seps : Cardinality({j \in seps : j < i}) = n - 1}
        starts == {i \in seps : Cardinality({j \in seps : j < i}) = n - 2}
        from == IF starts = {} THEN 1 ELSE (CHOOSE i \in starts : TRUE) + 1
        to == IF ends = {} THEN Len(text) ELSE (CHOOSE i \in ends : TRUE) - 1
    IN  SubSeq(text, from, to)

IsNumber(field, base) ==
    /\ field # <<>>
    /\ Len(field) <= 4
    /\ \A i \in 1..Len(field) : \E d \in 1..base : HexDigits[d] = field[i]

RECURSIVE Number(_, _)
Number(field, base) ==
    IF field = <<>> THEN 0
    ELSE Number(SubSeq(field, 1, Len(field) - 1), base) * base
         + (CHOOSE d \in 1..base : HexDigits[d] = field[Len(field)]) - 1

\* the address ranges of RFC 1918, RFC 1122, RFC 4291 and RFC 4193, read off
\* the address itself: 127/8, 10/8, 172.16/12, 192.168/16, ::1, fe80::/10
\* (fe80 to febf), fc00::/7 (fc00 to fdff), localhost, the empty address
InPrivateRanges(ip) ==
    LET text == Lower(Without(Without(Strip(ip), "["), "]"))
        dotted == \E i \in 1..Len(text) : text[i] = "."
        coloned == \E i \in 1..Len(text) : text[i] = ":"
        o1 == Field(text, ".", 1)
        o2 == Field(text, ".", 2)
        h1 == Field(text, ":", 1)
    IN  \/ text = <<>>
        \/ text = Host_localhost
        \/ text = Ip6_Loopback
        \/ /\ dotted /\ ~coloned
           /\ IsNumber(o1, 10) /\ IsNumber(o2, 10)
           /\ \/ Number(o1, 10) \in {127, 10}
              \/ Number(o1, 10) = 172 /\ Number(o2, 10) \in 16..31
              \/ Number(o1, 10) = 192 /\ Number(o2, 10) = 168
        \/ /\ coloned
           /\ IsNumber(h1, 16)
           /\ \/ Number(h1, 16) \in (15 * 4096 + 14 * 256 + 8 * 16)..(15 * 4096 + 14 * 256 + 11 * 16 + 15)
              \/ Number(h1, 16) \in (15 * 4096 + 12 * 256)..(15 * 4096 + 13 * 256 + 255)

\* the private ones among the addresses asked for and the keys they give
PrivateTexts ==
    {text \in LookupHosts \cup {CleanIps[ip] : ip \in LookupHosts} :
        InPrivateRanges(text)}

\* C7 (as stated): a lookup of a private, loopback or link-local address,
\* bracketed or not, returns nothing without a request, and no such address
\* is ever a key of the cache.
C7_AsStated ==
    /\ geoCall.pc = "done" /\ geoCall.ip \in PrivateTexts =>
          geoCall.result = None /\ geoCall.calls = NoRequests
    /\ \A key \in DOMAIN geoCache : key \notin PrivateTexts

\* a lookup on the instance just constructed, of the address the caller
\* looked up just before
FreshRepeat ==
    /\ geoCall.pc = "done" /\ geoCall.fresh
    /\ geoCall'.pc = "done" /\ ~geoCall'.fresh

SameWithoutRequest ==
    geoCall'.result = geoCall.result /\ geoCall'.calls = NoRequests

LookupStep == geoCall'.pc = "done" /\ ~geoCall'.fresh /\ now' = now

AllFailed(calls) ==
    calls # NoRequests /\ \A k \in 1..Len(calls) : ~calls[k].ok

\* C9: a lookup for which every provider fails returns nothing and leaves
\* the map and the file as they were; a lookup of an address that is not
\* skipped and not in the map asks the providers, every time; a lookup that
\* gets a record puts it in the map; a lookup of an address in the map
\* returns the record of the map without a request, and no record leaves
\* or changes in the map of an instance.
C9_NoNegativeCaching ==
    [][/\ LookupStep =>
            LET key == CleanIps[geoCall'.ip]
                skips == Skipped[geoCall'.ip]
            IN  /\ AllFailed(geoCall'.calls) =>
                      /\ geoCall'.result = None
                      /\ Len(geoCall'.calls) = Len(Providers)
                      /\ UNCHANGED <<geoCache, geoDisk>>
                /\ ~skips /\ key \notin DOMAIN geoCache =>
                      geoCall'.calls # NoRequests
                /\ ~skips /\ geoCall'.result # None =>
                      key \in DOMAIN geoCache' /\ geoCache'[key] = Val(geoCall'.result)
                /\ ~skips /\ key \in DOMAIN geoCache =>
                      /\ geoCall'.calls = NoRequests
                      /\ geoCall'.result = Some(geoCache[key])
       /\ ~geoCall'.fresh =>
            \A key \in DOMAIN geoCache :
               key \in DOMAIN geoCache' /\ geoCache'[key] = geoCache[key]]_vars

C9_Witness ==
    /\ geoCall.pc = "done"
    /\ geoCall.after = "none" /\ ~geoCall.onFresh
    /\ ~Skipped[geoCall.ip]
    /\ AllFailed(geoCall.calls)
    /\ geoCall.result = None
    /\ CleanIps[geoCall.ip] \notin DOMAIN geoCache
    /\ geoDisk = CorruptFile

\* C10: the requests of a lookup go to GeoJS, ip-api.com, ipapi.co in this
\* order and are at most three; every request but the last one failed; a
\* last request that succeeded gives the record returned and cached, which
\* is the record of that provider; a last request that failed is the third.
C10_ProviderOrder ==
    geoCall.pc = "done" /\ geoCall.calls # NoRequests =>
        LET calls == geoCall.calls
            n == Len(calls)
        IN  /\ n <= Len(Providers)
            /\ \A k \in 1..n : calls[k].provider = Providers[k]
            /\ \A k \in 1..(n - 1) : ~calls[k].ok
            /\ calls[n].ok =>
                  /\ geoCall.result # None
                  /\ geoCall.result =
                        TryProvider(Providers[n], "ok", Val(geoCall.result).ts)
                  /\ ~geoCall.fresh =>
                        geoCache[CleanIps[geoCall.ip]] = Val(geoCall.result)
            /\ ~calls[n].ok => n = Len(Providers) /\ geoCall.result = None

C10_Witness ==
    /\ geoCall.pc = "done"
    /\ geoCall.ip = Ip_8_8_8_8Padded
    /\ Len(geoCall.calls) = 3
    /\ ~geoCall.calls[1].ok /\ ~geoCall.calls[2].ok /\ geoCall.calls[3].ok
    /\ geoCall.result = TryProvider("ipapi.co", "ok", now)
    /\ geoCache[Ip_8_8_8_8] = Val(geoCall.result)

(***************************************************************************)
(* get_my_location and the TTL of the reserved key.                        *)
(***************************************************************************)
\* a step that is a call of get_my_location
MyLocationStep == geoCall.pc = "idle" /\ geoCall'.pc = "done"

\* the reserved key holds a record younger than the TTL
YoungRecordCached ==
    /\ MY_LOCATION_KEY \in DOMAIN geoCache
    /\ now - geoCache[MY_LOCATION_KEY].ts < MY_LOCATION_TTL

OtherKeysKept ==
    /\ DOMAIN geoCache' = DOMAIN geoCache \cup {MY_LOCATION_KEY}
    /\ \A key \in DOMAIN geoCache \ {MY_LOCATION_KEY} : geoCache'[key] = geoCache[key]

\* C11: get_my_location makes no request exactly when the reserved key holds
\* a record younger than 3600 seconds, and then returns the coordinates of
\* that record and changes nothing; otherwise it makes one request to GeoJS:
\* on success the reserved key holds the coordinates of the answer with
\* ts = now, every other key is as before, a write that goes through leaves
\* the file equal to the map, and the new coordinates are returned; on
\* failure it returns nothing and map and file, a stale record included, are
\* as before.
C11_MyLocationTtl ==
    [][MyLocationStep =>
          /\ YoungRecordCached <=> geoCall'.calls = NoRequests
          /\ YoungRecordCached =>
                /\ geoCall'.result = Some(Coordinates(geoCache[MY_LOCATION_KEY]))
                /\ UNCHANGED <<geoCache, geoDisk>>
          /\ ~YoungRecordCached =>
                /\ Len(geoCall'.calls) = 1
                /\ geoCall'.calls[1].provider = "geojs"
                /\ geoCall'.calls[1].ok =>
                      /\ Some(geoCache'[MY_LOCATION_KEY]) \in
                            {MyRecord("ok", now), MyRecord("moved", now)}
                      /\ geoCache'[MY_LOCATION_KEY].ts = now
                      /\ OtherKeysKept
                      /\ geoCall'.result =
                            Some(Coordinates(geoCache'[MY_LOCATION_KEY]))
                      /\ geoCall'.write = "ok" => geoDisk' = FileOf(geoCache')
                /\ ~geoCall'.calls[1].ok =>
                      /\ geoCall'.result = None
                      /\ UNCHANGED <<geoCache, geoDisk>>]_vars

\* a stale record, a failed request, nothing returned, the record still there
C11_Witness ==
    /\ geoCall.pc = "done"
    /\ geoCall.result = None
    /\ geoCall.calls = <<[provider |-> "geojs", ok |-> FALSE]>>
    /\ MY_LOCATION_KEY \in DOMAIN geoCache
    /\ geoCache[MY_LOCATION_KEY] = OldMyRecord
    /\ now - geoCache[MY_LOCATION_KEY].ts = MY_LOCATION_TTL

(***************************************************************************)
(* Persistence of the cache, whatever the file holds.                      *)
(***************************************************************************)
\* C12 (as stated): a lookup or get_my_location that changed the map left
\* the file equal to the map unless the write failed, one that did not
\* change the map wrote nothing, a record resolved while the write failed is
\* returned and in the map, and no operation raises, whatever the file held.
C12_AsStated ==
    geoCall.pc = "done" =>
        /\ geoCall.raised = "none"
        /\ geoCache # Val(geoCall.before) /\ geoCall.write = "ok" =>
              geoDisk = SaveAny(geoCache, geoDisk, "ok")
        /\ geoCache = Val(geoCall.before) => geoCall.write = "none"
        /\ geoCall.write \in {"denied", "partial"} =>
              /\ geoCall.result # None
              /\ geoCache # Val(geoCall.before)

(***************************************************************************)
(* RpcClient: the HTTP call, the fallback to lynx-cli, send and sweep, the *)
(* snapshot.                                                               *)
(***************************************************************************)
\* the command line of the method with the parameters the caller gave
SameCommand(method, params) ==
    <<LynxCli, method>> \o
        [i \in 1..Len(ParamsOrEmpty(params).items) |->
            StrParam(ParamsOrEmpty(params).items[i])]

\* C13 (as stated): _safe_call makes the HTTP call first and runs lynx-cli
\* only after it failed; after any HTTP failure it runs lynx-cli, with the
\* same method and the same parameters, for every method; it returns
\* nothing when both fail and never raises.
C13_AsStated ==
    rpc.pc = "done" /\ rpc.op = "_safe_call" =>
        /\ rpc.raised = "none"
        /\ rpc.calls[1].via = "http"
        /\ rpc.calls[1].method = rpc.method
        /\ rpc.calls[1].ok => Len(rpc.calls) = 1
        /\ ~rpc.calls[1].ok => Len(rpc.calls) >= 2
        /\ \A k \in 2..Len(rpc.calls) :
              /\ rpc.calls[k].via = "cli"
              /\ rpc.calls[k].argv = SameCommand(rpc.method, rpc.params)
        /\ (\A k \in 1..Len(rpc.calls) : ~rpc.calls[k].ok) => rpc.result = PyNone

\* the calls that went out, over HTTP or to lynx-cli, for sendtoaddress
SendCalls ==
    {k \in 1..Len(rpc.calls) :
        \/ rpc.calls[k].via = "http" /\ rpc.calls[k].method = M_sendtoaddress
        \/ rpc.calls[k].via = "cli" /\ rpc.calls[k].argv[2] = M_sendtoaddress}

\* the amount is a number, or a text or truth value that float() reads as one
NumericAmount(amount) ==
    \/ amount.type \in {"num", "float", "bool"}
    \/ amount.type = "str" /\ IsDecimalText(amount.text)

\* C14 (as stated): sendtoaddress with an address that is empty or blank,
\* an amount that is not a number or an amount <= 0 returns (False, message)
\* and makes no call; sweep_to_address with an empty address does the same;
\* sweep_to_address submits no send when the balance is not known or not
\* positive; the result is a pair in every case.
C14_AsStated ==
    /\ rpc.pc = "done" /\ rpc.op = "sendtoaddress" =>
          /\ rpc.raised = "none"
          /\ rpc.result.success \in BOOLEAN
          /\ \/ Strip(rpc.address) = <<>>
             \/ ~NumericAmount(rpc.amount)
             \/ Float(rpc.amount).x <= 0
             => ~rpc.result.success /\ rpc.result.message # <<>> /\ rpc.calls = <<>>
    /\ rpc.pc = "done" /\ rpc.op = "sweep_to_address" =>
          /\ rpc.raised = "none"
          /\ rpc.result.success \in BOOLEAN
          /\ Strip(rpc.address) = <<>> =>
                ~rpc.result.success /\ rpc.result.message # <<>> /\ rpc.calls = <<>>
          /\ \/ rpc.balance.type \notin {"num", "float"}
             \/ Float(rpc.balance).x <= 0
             => SendCalls = {}

\* the keys of the dictionary fetch_snapshot returns
SnapshotKeys ==
    {"blockchain_info", "best_block_hash", "chain_tips", "difficulty",
     "mempool_info", "mining_info", "network_hashps", "network_info",
     "net_totals", "peer_info", "connection_count", "memory_info", "rpc_info",
     "uptime", "wallet_info", "balances", "unconfirmed_balance",
     "wallet_balance", "immature_utxos", "stakes_24h", "stakes_7d",
     "yield_24h", "yield_7d", "daemon_status", "staking_status", "sync_state",
     "block_height", "peer_count", "peer_list", "address_groups",
     "all_addresses", "rpc_port", "rpc_security", "working_dir", "sync_monitor"}

\* the queries whose value is reported under their own name
ReportedQueries == QueryNames \ {"listunspent"}

\* C15 (as stated): fetch_snapshot never raises and returns a dictionary with
\* all of its keys whatever each query comes to (answered, failed, raw text
\* from lynx-cli); a failed query with a dict or list default is reported as
\* the empty dict or list; what one query comes to does not change the value
\* reported for another.
C15_AsStated ==
    rpc.pc = "done" /\ rpc.op = "fetch_snapshot" =>
        /\ rpc.raised = "none"
        /\ DOMAIN rpc.result = SnapshotKeys
        /\ \A name \in ReportedQueries :
              /\ rpc.outcomes[name] = "failed" /\ QueryNamed(name).default # None =>
                    rpc.result[name] = Val(QueryNamed(name).default)
              /\ rpc.result[name] =
                    QueryValue(QueryNamed(name), rpc.outcomes[name], rpc.conf)

\* the refresh_data coroutines in progress, and those whose thread is inside
\* GeoCache
Running == {t \in Tasks : ui.tasks[t].pc # "idle"}
InGeoCache ==
    {t \in Tasks : ui.tasks[t].pc = "geo" /\ ui.tasks[t].left > 0}

\* C16 (as stated): no refresh_data cycle starts while another one is in
\* progress, whichever trigger fired, and no backfill fetch starts while
\* another one is in flight: at most one of each is under way.
C16_AsStated ==
    ui.pc = "mounted" =>
        /\ Cardinality(Running) <= 1
        /\ InFlight(ui.backfill) <= 1

\* C17 (as stated): a timer that is started again stops the pending one
\* first: of the blink timers, the indicator reset, the txid-clear timers and
\* the theme-name hide timer at most one is pending at any time, and none
\* fires after a later one of its name was started.
C17_AsStated ==
    ui.pc = "timers" =>
        /\ \A name \in TimerNames : Cardinality(ui.pending[name]) <= 1
        /\ ~ui.late

\* C18 (as stated): at any time at most one thread is inside GeoCache.lookup,
\* get_my_location or _save_cache: at most one provider request is in flight
\* and at most one writer writes the cache file.
C18_AsStated ==
    ui.pc = "mounted" =>
        /\ Cardinality(InGeoCache) <= 1
        /\ Cardinality({t \in InGeoCache : ui.tasks[t].at = "request"}) <= 1
        /\ Cardinality({t \in InGeoCache : ui.tasks[t].at = "save"}) <= 1

\* the cells of the grid within two rings of a cell
Chebyshev(a, b) ==
    IF Abs(a[1] - b[1]) > Abs(a[2] - b[2]) THEN Abs(a[1] - b[1]) ELSE Abs(a[2] - b[2])
Near(base, cols, rows) == {cell \in Cells(cols, rows) : Chebyshev(cell, base) <= 2}
BaseOf(k) == BaseCell(grid.markers[k], grid.center_lon, grid.cols, grid.rows)
CellsOf(peer_idx) == {cell \in DOMAIN grid.marker_cells : grid.marker_cells[cell] = peer_idx}

\* all the markers so far have one base cell and are no more than the cells
\* within two rings of it
Coinciding ==
    /\ grid.pc \in {"placing", "done"}
    /\ "markers" \in DOMAIN grid
    /\ grid.markers # <<>>
    /\ \A k \in 1..Len(grid.markers) : BaseOf(k) = BaseOf(1)
    /\ Len(grid.markers) <= Cardinality(Near(BaseOf(1), grid.cols, grid.rows))

\* a marker is placed while a free cell remains within two rings of its base
PlacedWithRoom ==
    /\ grid.pc = "placing"
    /\ grid'.pc = "placing"
    /\ Len(grid'.markers) = Len(grid.markers) + 1
    /\ Near(BaseCell(grid'.markers[Len(grid'.markers)], grid.center_lon, grid.cols,
                     grid.rows), grid.cols, grid.rows) \ DOMAIN grid.marker_cells # {}

\* C19: markers with one base cell, while a free cell of the grid remains
\* within two rings of it, each have a cell of their own at Chebyshev
\* distance at most 2 from the base cell, and every occupied cell holds the
\* index of the marker placed there; placing a marker takes a free cell
\* within two rings of its base and leaves the earlier markers where they
\* are.
C19_MarkerCollision ==
    /\ [](Coinciding =>
            /\ \A k \in 1..Len(grid.markers) :
                  /\ Cardinality(CellsOf(k - 1)) = 1
                  /\ CellsOf(k - 1) \subseteq Near(BaseOf(1), grid.cols, grid.rows)
            /\ \A cell \in DOMAIN grid.marker_cells :
                  grid.marker_cells[cell] \in 0..Len(grid.markers) - 1)
    /\ [][PlacedWithRoom =>
            \E cell \in Near(BaseCell(grid'.markers[Len(grid'.markers)], grid.center_lon,
                                      grid.cols, grid.rows), grid.cols, grid.rows) :
               /\ cell \notin DOMAIN grid.marker_cells
               /\ DOMAIN grid'.marker_cells = DOMAIN grid.marker_cells \cup {cell}
               /\ grid'.marker_cells[cell] = Len(grid.markers)
               /\ \A c \in DOMAIN grid.marker_cells :
                     grid'.marker_cells[c] = grid.marker_cells[c]]_vars

\* three markers with one base cell are on three cells
C19_Witness ==
    /\ Coinciding
    /\ Len(grid.markers) = 3
    /\ Cardinality(DOMAIN grid.marker_cells) = 3
    /\ \A k \in 1..3 : Cardinality(CellsOf(k - 1)) = 1

\* C20 (as stated): every marker of the call has at least one cell of the
\* rendered grid, also after a base cell was overwritten.
C20_AsStated ==
    grid.pc = "done" /\ grid.result.kind = "Group" =>
        \A k \in 1..Len(grid.markers) :
           \E cell \in Cells(grid.cols, grid.rows) :
              /\ "marker" \in DOMAIN grid.result.cells[cell]
              /\ grid.result.cells[cell].marker = k - 1

\* the calls that get a placeholder: a grid below 10 x 5, no map data, no
\* spatial index
Placeholder ==
    grid.cols < 10 \/ grid.rows < 5 \/ grid.geometries \in {"unavailable", "index_failed"}

PlaceholderFor(file) ==
    IF file = "missing" THEN NotFoundRow
    ELSE IF file = "unreadable" THEN UnreadableRow
    ELSE PlaceholderRow

\* C22: get_update_tip_entries never raises and, with a limit of at least 1,
\* never returns an empty sequence; on a missing file, on a file that cannot
\* be read and on a file without UpdateTip line it returns exactly one
\* placeholder row, no latest timestamp and an empty timezone label.
C22_PlaceholderRow ==
    tipRet.called /\ "file" \in DOMAIN tipRet =>
        /\ "raised" \notin DOMAIN tipRet
        /\ tipRet.limit >= 1 => Len(tipRet.rows) >= 1
        /\ tipRet.file # "readable" \/ TipIndexes = {} =>
              /\ tipRet.rows = <<PlaceholderFor(tipRet.file)>>
              /\ tipRet.latest_time = None
              /\ tipRet.tz_name = ""

\* an unreadable file that holds UpdateTip lines was asked for 15 rows
C22_Witness ==
    /\ tipRet.called /\ "file" \in DOMAIN tipRet
    /\ tipRet.file = "unreadable"
    /\ tipRet.limit = 15
    /\ TipIndexes # {}
    /\ tipRet.rows = <<UnreadableRow>>

\* whether the first token of the line kept for entry i parsed as a time
StampParsed(i) == LastLineAt(tipRet.entries[i].height).stamp.iso

\* C23: a row's delta is "-" exactly when its own timestamp or that of the
\* next-older entry did not parse, or when the collected entries hold no
\* next-older entry; otherwise it is the delta of the two parsed times, also
\* for the last row of the slice when an older entry lies beyond the slice.
C23_DeltaSentinel ==
    tipRet.called /\ "file" \in DOMAIN tipRet /\ tipRet.entries # <<>> =>
        \A i \in RowIndexes :
           LET sentinel == \/ ~StampParsed(i)
                           \/ i + 1 > Len(tipRet.entries)
                           \/ ~StampParsed(i + 1)
           IN  /\ tipRet.rows[i].delta_display = "-" <=> sentinel
               /\ ~sentinel =>
                     tipRet.rows[i].delta_display =
                        DeltaDisplay(LastLineAt(tipRet.entries[i].height).stamp.ticks,
                                     LastLineAt(tipRet.entries[i + 1].height).stamp.ticks)

\* one row is returned of two entries, of which the older is beyond the slice,
\* and it has a delta
C23_Witness ==
    /\ tipRet.called /\ "file" \in DOMAIN tipRet
    /\ Len(tipRet.entries) = 2
    /\ tipRet.limit = 1
    /\ Len(tipRet.rows) = 1
    /\ StampParsed(1) /\ StampParsed(2)
    /\ tipRet.rows[1].delta_display = "1m 1s"

\* the heights of the UpdateTip lines from line c to the end of the file
HeightsFrom(c) == {Height(log[i]) : i \in {j \in TipIndexes : j >= c}}
\* the line at which a scan from the end of the file has met 200 heights
ScanEnd ==
    CHOOSE c \in 1..Len(log) + 1 :
        /\ Cardinality(HeightsFrom(c)) <= ScanCap
        /\ c = 1 \/ Cardinality(HeightsFrom(c - 1)) > ScanCap
\* the heights such a scan meets before it has 200
Collected == HeightsFrom(ScanEnd)
RowHeights == {tipRet.rows[i].height : i \in RowIndexes}
\* the rows are those of the greatest collected heights
GreatestCollected ==
    LET collected == Collected
        shown == RowHeights
    IN  /\ {tipRet.entries[i].height : i \in 1..Len(tipRet.entries)} = collected
        /\ shown \subseteq collected
        /\ Cardinality(shown) = Len(tipRet.rows)
        /\ \A h \in collected \ shown : \A g \in shown : h < g

\* C24 as stated: the rows returned are exactly min(limit, D), D being the
\* number of collected heights, whatever the limit and the file.
C24_AsStated ==
    tipRet.called /\ "file" \in DOMAIN tipRet =>
        Len(tipRet.rows) = Min(tipRet.limit, Len(tipRet.entries))

\* C24: the scan from the end of the file collects the first 200 distinct
\* heights it meets and no more; with D >= 1 collected heights the rows
\* returned are max(0, min(limit, D)), those of the greatest collected
\* heights, and with D = 0 one placeholder row is returned.
C24_ScanCap ==
    tipRet.called /\ "file" \in DOMAIN tipRet =>
        /\ Len(tipRet.entries) <= ScanCap
        /\ tipRet.file = "readable" =>
              /\ Len(tipRet.entries) = Cardinality(Collected)
              /\ Len(tipRet.entries) = Min(ScanCap, Cardinality(TipHeights))
        /\ tipRet.entries # <<>> =>
              /\ Len(tipRet.rows) = Max(0, Min(tipRet.limit, Len(tipRet.entries)))
              /\ GreatestCollected
        /\ tipRet.entries = <<>> => tipRet.rows = <<PlaceholderFor(tipRet.file)>>

\* a log of 201 synced heights read with a limit of 250: the 200 newest
\* heights are returned
C24_Witness ==
    /\ tipRet.called /\ "file" \in DOMAIN tipRet
    /\ Cardinality(TipHeights) = ScanCap + 1
    /\ tipRet.limit = ScanCap + 50
    /\ Len(tipRet.rows) = ScanCap
    /\ tipRet.rows[ScanCap].height = 102

\* the submissions of the call that went to lynx-cli
CliSubmissions ==
    {k \in SendCalls : rpc.calls[k].via = "cli"}

\* C25 (as stated): one call of sendtoaddress or sweep_to_address makes the
\* daemon create at most one transaction: lynx-cli is run only when the
\* daemon did not accept the HTTP submission, also after a timeout or an
\* error that followed the delivery of the request.
C25_AsStated ==
    rpc.pc = "done" /\ "created" \in DOMAIN rpc =>
        /\ rpc.created <= 1
        /\ CliSubmissions # {} => ~HttpAccepted(rpc.http)

\* the places of the steps of one kind in a run of restore_wallet
StepsOf(step) == {k \in 1..Len(rpc.result.steps) : rpc.result.steps[k].step = step}
Succeeded(step) == \E k \in StepsOf(step) : rpc.result.steps[k].ok

\* C26: restore_wallet runs unloadwallet, copy, loadwallet in that order;
\* wallet.dat is written only after an unload succeeded; without the backup
\* file or without an unload it returns failure, wallet.dat unchanged, no
\* copy and no load tried; after an unload that succeeded a loadwallet is
\* tried before it returns, also when the copy failed; it returns (True,
\* "Restored") only after a copy and a loadwallet that succeeded.
C26_RestoreOrder ==
    rpc.pc = "done" /\ rpc.op = "restore_wallet" /\ rpc.result.raised = "none" =>
        /\ \A i \in StepsOf("unloadwallet"), j \in StepsOf("copy") : i < j
        /\ \A i \in StepsOf("copy"), j \in StepsOf("loadwallet") : i < j
        /\ rpc.result.wallet_dat # "unchanged" =>
              Succeeded("unloadwallet") /\ StepsOf("copy") # {}
        /\ StepsOf("copy") # {} => Succeeded("unloadwallet")
        /\ ~rpc.isFile \/ ~Succeeded("unloadwallet") =>
              /\ ~rpc.result.success
              /\ rpc.result.wallet_dat = "unchanged"
              /\ StepsOf("copy") = {} /\ StepsOf("loadwallet") = {}
        /\ Succeeded("unloadwallet") => StepsOf("loadwallet") # {}
        /\ rpc.result.success <=> rpc.result.message = "Restored"
        /\ rpc.result.success => Succeeded("copy") /\ Succeeded("loadwallet")

\* the unload succeeded with lynx-cli, the copy broke off midway and a
\* loadwallet was still tried
C26_Witness ==
    /\ rpc.pc = "done" /\ rpc.op = "restore_wallet"
    /\ Len(rpc.result.steps) >= 2
    /\ rpc.result.steps[1] = Step("unloadwallet", "http", FALSE)
    /\ rpc.result.steps[2] = Step("unloadwallet", "cli", TRUE)
    /\ rpc.copy = "broken_off"
    /\ ~rpc.result.success
    /\ StepsOf("loadwallet") # {}

\* the notifications raised or handed to call_later so far
NotificationsOf(u) == Len(u.later) + Len(u.notified)

C28_AsStated ==
    ui.pc = "chart" /\ ~ui.flat =>
        \A k \in 1..Len(ui.data) :
           ui.data[k] = DifficultyAt(FALSE, ui.data[1] - (k - 1))

\* C29 (as stated): the difficulty list never holds more than 100 values
\* and the backfill index never exceeds 100; no backfill fetch starts once
\* the index is 100 or while the node is syncing; a fetch that completes
\* with a value advances the index by exactly one.
C29_AsStated ==
    /\ [](ui.pc = "chart" =>
            /\ Len(ui.data) <= DIFFICULTY_BLOCK_COUNT
            /\ ui.index <= DIFFICULTY_BLOCK_COUNT)
    /\ [][ui.pc = "chart" =>
            /\ ui'.queued > ui.queued =>
                  ui.index < DIFFICULTY_BLOCK_COUNT /\ ~ui.syncing
            /\ Len(ui'.fetched) < Len(ui.fetched) /\ Head(ui.fetched) # None =>
                  ui'.index = ui.index + 1]_vars

\* no blink timer of the card is active
BlinkIdle(card) == ui.pending[card] = {}
\* the animation of the card is over: no timer, nothing blinks, all shown
BlinkOver(card) ==
    /\ BlinkIdle(card)
    /\ ~ui.blinking[card]
    /\ ui.blink_visible[card]

\* C30: an animation started by update_peers or update_lines with blink
\* indices ends: unless it is started again its timer fires 18 times,
\* toggling blink_visible each time, and is stopped at the 18th with the
\* blink set emptied and blink_visible true; whenever no blink timer is
\* active, blink_visible is true and the blink set is empty.
C30_BlinkEnds ==
    /\ [](ui.pc = "timers" =>
            \A card \in Cards :
               /\ BlinkIdle(card) => BlinkOver(card)
               /\ ~BlinkIdle(card) => ui.blink_count[card] < BlinkTicks
               /\ Cardinality(ui.pending[card]) <= 1)
    /\ [][ui.pc = "timers" =>
            \A card \in Cards :
               /\ ui'.blink_count[card] = ui.blink_count[card] + 1 =>
                     /\ ~BlinkIdle(card)
                     /\ ui'.blink_count[card] < BlinkTicks =>
                           /\ ui'.blink_visible[card] = ~ui.blink_visible[card]
                           /\ ui'.pending[card] = ui.pending[card]
                     /\ ui'.blink_count[card] = BlinkTicks => BlinkOver(card)'
               /\ ~BlinkIdle(card) /\ BlinkIdle(card)' =>
                     ui'.blink_count[card] = BlinkTicks]_vars
    /\ \A card \in Cards : ~BlinkIdle(card) ~> BlinkOver(card)

\* the map's animation ran its 18 ticks and is over
C30_Witness ==
    /\ ui.pc = "timers"
    /\ ui.made = 1
    /\ ui.latest["peer_map"] = 1
    /\ ui.blink_count["peer_map"] = BlinkTicks
    /\ BlinkOver("peer_map")

====
